---- MODULE Spec2Model ----
(***************************************************************************)
(* Retrieval & Ranking Engine of the InvestX Labs backend (legacy tree):   *)
(* Recommendation Scorer, Similarity Search Engine, Cache Layer (in-process *)
(* map mode), Context Aggregator and Conversation State Tracker.            *)
(*                                                                         *)
(* Numbers.  Python floats are modelled in exact fixed point:              *)
(*   - a factor value v in [0,1] is the integer v * ScoreScale;            *)
(*   - a weight w is the integer w * 100 (hundredths);                     *)
(*   - a composite score c is the integer c * ScoreScale * 100;            *)
(*   - a distance / relevance / similarity x is the integer x * 1000.      *)
(* Time is in seconds.                                                     *)
(***************************************************************************)
EXTENDS Integers, Sequences, FiniteSets, TLC

VARIABLES
    \* ---- Recommendation Scorer -------------------------------------------
    rec_pc,            \* "idle" | "input" | "done"
    user_profile,      \* the profile handed to _generate_recommendations
    user_engagement,   \* the engagement record (NoEngagement = empty dict)
    all_content,       \* firestore_client.get_educational_content(limit=100)
    rec_limit,         \* requested limit
    recommendations,   \* list returned by _generate_recommendations
    profile_stored,    \* whether the store has a profile document for the user
    profile_version,   \* number of completed update_user_interests calls
    cache_reachable,   \* FALSE: every call of the cache store raises
    rq_pc,             \* where a get_personalized_recommendations call stands
    rq_read,           \* the profile that call read from the store
    rq_out,            \* what the last get_personalized_recommendations returned
    \* ---- Cache Layer, in-process map mode --------------------------------
    memory_cache,      \* CacheManager._memory_cache: key -> [value, expires_at]
    now,               \* datetime.utcnow(), in seconds
    cache_ret,         \* what the last CacheManager call did and returned
    expired,           \* keys whose entry has outlived its expiry since it was last set
    redis_store,       \* the backing store as the redis branch of the same calls leaves it
    redis_ret,         \* what the redis branch of the last call returned
    \* ---- Similarity Search Engine ----------------------------------------
    search_pc,         \* "idle" | "ready" | "selected"
    index_results,     \* what the vector index holds for the query, nearest first
    search_type,       \* VECTOR_SEARCH_CONFIG["search_type"]
    search_limit,      \* the limit argument of the calls
    search_call,       \* the last call: [op, limit, from_cache]
    search_out,        \* the list the last call returned
    index_calls,       \* number of vector_store.search_similar calls so far
    \* ---- Context Aggregator ----------------------------------------------
    ctx_request,       \* the (query, user_profile, context_type) of the calls
    source_version,    \* what the sub-sources currently hold
    sub_calls,         \* calls made so far to each sub-source
    ctx_ret,           \* what the last retrieve_context call returned
    ctx_cached,        \* the last call that built and cached a bundle
    ctx_pc,            \* where a retrieve_context call run step by step stands
    ctx_partial,       \* the context_data that call has filled so far
    ctx_unresponsive,  \* the sub-sources that never answer
    chunk_content,     \* the content string handed to _chunk_content
    chunk_out,         \* what _chunk_content returned for it
    \* ---- Conversation State Tracker --------------------------------------
    conv_heap,         \* the conversation dicts alive in the process
    conv_db,           \* the documents of the user_conversations collection
    conv_prior,        \* the messages stored before the turns began
    turn_pc,           \* where each handle_message turn stands
    turn_conv,         \* the dict each turn holds in "conversation"
    turn_write         \* the document each turn has sent to the database

reqVars == <<profile_stored, profile_version, cache_reachable, rq_pc, rq_read, rq_out>>
recVars == <<rec_pc, user_profile, user_engagement, all_content, rec_limit, recommendations,
             reqVars>>
cacheVars == <<memory_cache, now>>
backingVars == <<redis_store, redis_ret>>
cacheOpVars == <<cache_ret, expired, backingVars>>
searchVars == <<search_pc, index_results, search_type, search_limit, search_call, search_out, index_calls>>

ctxStepVars == <<ctx_pc, ctx_partial, ctx_unresponsive>>

chunkVars == <<chunk_content, chunk_out>>

ctxVars == <<ctx_request, source_version, sub_calls, ctx_ret, ctx_cached, ctxStepVars, chunkVars>>

convVars == <<conv_heap, conv_db, conv_prior, turn_pc, turn_conv, turn_write>>

vars == <<recVars, cacheVars, cacheOpVars, searchVars, ctxVars, convVars>>

(***************************************************************************)
(* Generic helpers                                                         *)
(***************************************************************************)
Min(a, b) == IF a <= b THEN a ELSE b
Max(a, b) == IF a >= b THEN a ELSE b

\* Python's seq[:n] for n >= 0
Take(s, n) == SubSeq(s, 1, Min(n, Len(s)))

\* Python's seq[-n:] for n > 0
LastN(s, n) == SubSeq(s, Max(1, Len(s) - n + 1), Len(s))

Range(s) == { s[i] : i \in 1..Len(s) }

RECURSIVE SumSeq(_)
SumSeq(s) == IF s = <<>> THEN 0 ELSE s[1] + SumSeq(Tail(s))

\* all sequences over S of length 0..n
SeqsUpTo(S, n) == UNION { [1..k -> S] : k \in 0..n }

(***************************************************************************)
(* Recommendation Scorer  (ai_models/recommendation_engine 2.py)           *)
(***************************************************************************)
\* value of the float 1.0 for factor values; 0.3 * ScoreScale is divisible by 1..10
ScoreScale == 25200

\* RECOMMENDATION_WEIGHTS, in hundredths
W_user_interests == 30
W_user_experience_level == 25
W_content_popularity == 20
W_content_freshness == 15
W_user_engagement == 10

\* composite value of 1.0
CompositeOne == ScoreScale * 100

\* "if score > 0.3" minimum threshold, in hundredths
MinScoreThreshold == 30

\* score given to every default recommendation (0.7), in hundredths
DefaultScore == 70

NoEngagement == [present |-> FALSE, conversation_data |-> <<>>]
NoDate == -1

\* bounds of the scorer's inputs
MaxContent == 3
MaxInterests == 2
MaxConversations == 2
MaxLimit == 3

Terms == {"stocks", "bonds", "etfs"}
Levels == {"beginner", "intermediate", "advanced"}

\* The content store's catalogue.  days_old is the age of created_at in days
\* (NoDate: created_at missing or unparseable).  Items 3 and 1 differ only in
\* id and age inside the same freshness bucket.
ContentPool ==
    { [id |-> 3, category |-> "stocks", difficulty_level |-> "beginner",
       content_quality_score |-> 9, keywords |-> {"investing"}, days_old |-> 2],
      [id |-> 1, category |-> "stocks", difficulty_level |-> "beginner",
       content_quality_score |-> 9, keywords |-> {"investing"}, days_old |-> 3],
      [id |-> 2, category |-> "basics", difficulty_level |-> "beginner",
       content_quality_score |-> 3, keywords |-> {}, days_old |-> 45],
      [id |-> 4, category |-> "etfs", difficulty_level |-> "advanced",
       content_quality_score |-> 1,
       keywords |-> {"etfs", "stocks", "bonds", "investing"}, days_old |-> 400],
      [id |-> 5, category |-> "bonds", difficulty_level |-> "intermediate",
       content_quality_score |-> 10, keywords |-> {"bonds"}, days_old |-> NoDate] }

\* conversation texts, each given by the set of terms that occur in it
TextPool == { {}, {"etfs", "stocks", "bonds", "investing"} }

\* order_by("created_at", DESCENDING): freshest first, undated documents last
CreatedAtKey(item) == IF item.days_old = NoDate THEN 100000 ELSE item.days_old

IsStoreListing(s) ==
    /\ \A i, j \in 1..Len(s) : i < j => s[i].id # s[j].id
    /\ \A i \in 1..(Len(s) - 1) : CreatedAtKey(s[i]) <= CreatedAtKey(s[i + 1])

StoreListings == { s \in SeqsUpTo(ContentPool, MaxContent) : IsStoreListing(s) }

Profiles ==
    [ interests : { I \in SUBSET Terms : Cardinality(I) <= MaxInterests },
      experience_level : Levels ]

Engagements ==
    {NoEngagement} \cup
    { [present |-> TRUE, conversation_data |-> cd] : cd \in SeqsUpTo(TextPool, MaxConversations) }

\* _calculate_interest_score
InterestScore(content_item, profile) ==
    LET user_interests == profile.interests
        category_match == IF content_item.category \in user_interests THEN ScoreScale ELSE 0
        keyword_matches == Cardinality(content_item.keywords \cap user_interests)
        keyword_score == Min((keyword_matches * ScoreScale) \div Cardinality(user_interests),
                             ScoreScale)
    IN  IF user_interests = {} THEN ScoreScale \div 2
        ELSE (category_match * 7 + keyword_score * 3) \div 10

LevelOf(name) ==
    CASE name = "beginner" -> 1
      [] name = "intermediate" -> 2
      [] name = "advanced" -> 3
      [] OTHER -> 1

\* _calculate_experience_score
ExperienceScore(content_item, profile) ==
    LET user_level == LevelOf(profile.experience_level)
        content_level == LevelOf(content_item.difficulty_level)
    IN  IF content_level = user_level THEN ScoreScale
        ELSE IF content_level = user_level + 1 THEN (ScoreScale * 8) \div 10
        ELSE IF content_level = user_level - 1 THEN (ScoreScale * 6) \div 10
        ELSE IF content_level > user_level + 1 THEN (ScoreScale * 2) \div 10
        ELSE (ScoreScale * 4) \div 10

\* _calculate_popularity_score
PopularityScore(content_item) == (content_item.content_quality_score * ScoreScale) \div 10

\* _calculate_freshness_score
FreshnessScore(content_item) ==
    LET days_old == content_item.days_old
    IN  IF days_old = NoDate THEN ScoreScale \div 2
        ELSE IF days_old < 7 THEN ScoreScale
        ELSE IF days_old < 30 THEN (ScoreScale * 8) \div 10
        ELSE IF days_old < 90 THEN (ScoreScale * 6) \div 10
        ELSE IF days_old < 365 THEN (ScoreScale * 4) \div 10
        ELSE (ScoreScale * 2) \div 10

\* credit of one conversation text: 0.3 for the category, 0.1 per keyword
ConversationCredit(content_item, text) ==
    (IF content_item.category \in text THEN (ScoreScale * 3) \div 10 ELSE 0)
    + Cardinality(content_item.keywords \cap text) * (ScoreScale \div 10)

\* an engagement factor that is neutral (0.5) when there is no conversation
EngagementScoreNeutralWhenEmpty(content_item, engagement) ==
    IF ~engagement.present \/ engagement.conversation_data = <<>> THEN ScoreScale \div 2
    ELSE Min(SumSeq([ i \in 1..Len(engagement.conversation_data) |->
                        ConversationCredit(content_item, engagement.conversation_data[i]) ]),
             ScoreScale)

\* _calculate_engagement_score
EngagementScore(content_item, engagement) ==
    IF ~engagement.present THEN ScoreScale \div 2
    ELSE Min(SumSeq([ i \in 1..Len(engagement.conversation_data) |->
                        ConversationCredit(content_item, engagement.conversation_data[i]) ]),
             ScoreScale)

FactorNames == {"interest", "experience", "popularity", "freshness", "engagement"}

\* the five factor values of one content item
Factors(content_item, profile, engagement) ==
    [ interest   |-> InterestScore(content_item, profile),
      experience |-> ExperienceScore(content_item, profile),
      popularity |-> PopularityScore(content_item),
      freshness  |-> FreshnessScore(content_item),
      engagement |-> EngagementScore(content_item, engagement) ]

\* mutants of the weighted sum
WeightedSumUnweighted(f) ==
    (f.interest + f.experience + f.popularity + f.freshness + f.engagement) * 100

WeightedSumFreshnessSubtracted(f) ==
    f.interest * W_user_interests
    + f.experience * W_user_experience_level
    + f.popularity * W_content_popularity
    - f.freshness * W_content_freshness
    + f.engagement * W_user_engagement

\* total_score accumulated over the five factors
WeightedSum(f) ==
    f.interest * W_user_interests
    + f.experience * W_user_experience_level
    + f.popularity * W_content_popularity
    + f.freshness * W_content_freshness
    + f.engagement * W_user_engagement

\* the raw factor values added up, neither weighted nor capped
CompositeScoreUnweighted(f) == WeightedSumUnweighted(f)

\* min(total_score, 1.0)
CompositeScore(f) == Min(WeightedSum(f), CompositeOne)

\* _calculate_recommendation_score
RecommendationScore(content_item, profile, engagement) ==
    CompositeScore(Factors(content_item, profile, engagement))

\* a sort that breaks ties by putting the later entry first
RECURSIVE InsertByScoreUnstable(_, _)
InsertByScoreUnstable(sorted, e) ==
    IF sorted = <<>> THEN <<e>>
    ELSE IF sorted[1].score > e.score THEN <<sorted[1]>> \o InsertByScoreUnstable(Tail(sorted), e)
         ELSE <<e>> \o sorted

\* list.sort(key=score, reverse=True): stable, equal keys keep their order.
\* InsertByScore puts e after every entry whose score is >= e.score.
RECURSIVE InsertByScore(_, _)
InsertByScore(sorted, e) ==
    IF sorted = <<>> THEN <<e>>
    ELSE IF sorted[1].score >= e.score THEN <<sorted[1]>> \o InsertByScore(Tail(sorted), e)
         ELSE <<e>> \o sorted

RECURSIVE SortByScoreDesc(_)
SortByScoreDesc(s) ==
    IF s = <<>> THEN <<>>
    ELSE InsertByScore(SortByScoreDesc(SubSeq(s, 1, Len(s) - 1)), s[Len(s)])

\* _get_default_recommendations: the store's "basics"/"beginner" documents
DefaultRecommendations(store, limit) ==
    LET IsDefault(item) == item.category = "basics" /\ item.difficulty_level = "beginner"
        default_content == Take(SelectSeq(store, IsDefault), limit)
    IN  [ i \in 1..Len(default_content) |->
            [content |-> default_content[i], score |-> DefaultScore * ScoreScale] ]

\* "if score > 0.3"
PassesThreshold(score) == score > MinScoreThreshold * ScoreScale

\* the scored_content list before sorting
ScoredContent(content, profile, engagement) ==
    LET entries == [ i \in 1..Len(content) |->
                       [content |-> content[i],
                        score |-> RecommendationScore(content[i], profile, engagement)] ]
        Kept(e) == PassesThreshold(e.score)
    IN  SelectSeq(entries, Kept)

\* _generate_recommendations
GenerateRecommendations(content, profile, engagement, limit) ==
    IF content = <<>> THEN DefaultRecommendations(content, limit)
    ELSE Take(SortByScoreDesc(ScoredContent(content, profile, engagement)), limit)

\* ---- the in-process cache map (database/cache_manager.py), as the calls
\* below use it -------------------------------------------------------------
EmptyCache == << >>

\* "cache_item['expires_at'] > datetime.utcnow()"
CacheLive(cache, key, t) == key \in DOMAIN cache /\ cache[key].expires_at > t

\* "del self._memory_cache[key]"
CacheRemove(cache, key) == [ k \in DOMAIN cache \ {key} |-> cache[k] ]

\* the map after get / exists / get_hash / get_all_hash: an entry found
\* expired is removed
CacheAfterRead(cache, key, t) ==
    IF key \in DOMAIN cache /\ ~CacheLive(cache, key, t) THEN CacheRemove(cache, key)
    ELSE cache

\* a set whose expiry is computed without the ttl
CacheAfterSetNoTtl(cache, key, value, ttl, t) ==
    [ k \in DOMAIN cache \cup {key} |->
        IF k = key THEN [value |-> value, expires_at |-> t] ELSE cache[k] ]

\* the map after set(key, value, ttl)
CacheAfterSet(cache, key, value, ttl, t) ==
    [ k \in DOMAIN cache \cup {key} |->
        IF k = key THEN [value |-> value, expires_at |-> t + ttl] ELSE cache[k] ]

\* ---- get_personalized_recommendations and update_user_interests ---------
RecommendationsCacheTtl == 3600

\* bound: update_user_interests calls in one behaviour
MaxUpdates == 2

\* f"recommendations:{user_id}:{limit}"
RecommendationsCacheKey(user_id, limit) == <<"recommendations", user_id, limit>>

\* f"recommendations:{user_id}:*"
MatchesUserPattern(key, user_id) == key[1] = "recommendations" /\ key[2] = user_id

NoProfileRead == [profile |-> [interests |-> {}, experience_level |-> "beginner"], version |-> 0]

NoRecommendationsReturn ==
    [returned |-> FALSE, list |-> << >>, from_cache |-> FALSE, defaulted |-> FALSE,
     raised |-> FALSE, version |-> 0]

RecommendationsReturned(list, from_cache, defaulted, version) ==
    [returned |-> TRUE, list |-> list, from_cache |-> from_cache, defaulted |-> defaulted,
     raised |-> FALSE, version |-> version]

RequestIdle ==
    /\ profile_stored = FALSE
    /\ profile_version = 0
    /\ cache_reachable = TRUE
    /\ rq_pc = "idle"
    /\ rq_read = NoProfileRead
    /\ rq_out = NoRecommendationsReturn

\* a cache store whose failure reaches the caller of get
CacheGetOutcomeRaising(reachable, cache, key, t) ==
    IF ~reachable THEN "error"
    ELSE IF CacheLive(cache, key, t) THEN "hit" ELSE "miss"

\* cache_manager.get(key) as its caller sees it: a failure of the store is
\* caught inside get, which then returns None
CacheGetOutcome(reachable, cache, key, t) ==
    IF ~reachable THEN "miss"
    ELSE IF CacheLive(cache, key, t) THEN "hit" ELSE "miss"

\* the cache after cache_manager.set(key, value, ttl): a failure of the
\* store is caught inside set, which then returns False
CacheAfterGuardedSet(reachable, cache, key, value, ttl, t) ==
    IF reachable THEN CacheAfterSet(cache, key, value, ttl, t) ELSE cache

\* the cache after cache_manager.clear_pattern(f"recommendations:{user_id}:*")
CacheAfterClearUser(reachable, cache, user_id) ==
    IF reachable
    THEN [ k \in { k \in DOMAIN cache : ~MatchesUserPattern(k, user_id) } |-> cache[k] ]
    ELSE cache

\* get_personalized_recommendations up to the read of the profile: a cached
\* list is returned, a user without profile gets the default list
RequestStart ==
    LET cache_key == RecommendationsCacheKey("u", rec_limit)
        outcome == CacheGetOutcome(cache_reachable, memory_cache, cache_key, now)
        cached == IF outcome = "hit" THEN memory_cache[cache_key].value ELSE << >>
    IN  /\ rq_pc \in {"ready", "returned"}
        /\ IF outcome = "error"
           THEN /\ rq_out' = RecommendationsReturned(DefaultRecommendations(all_content, rec_limit),
                                                     FALSE, TRUE, profile_version)
                /\ rq_pc' = "returned"
                /\ UNCHANGED <<memory_cache, rq_read>>
           ELSE IF cached # << >>
           THEN /\ rq_out' = RecommendationsReturned(cached, TRUE, FALSE, profile_version)
                /\ rq_pc' = "returned"
                /\ UNCHANGED <<memory_cache, rq_read>>
           ELSE /\ memory_cache' = IF cache_reachable
                                   THEN CacheAfterRead(memory_cache, cache_key, now)
                                   ELSE memory_cache
                /\ IF profile_stored
                   THEN /\ rq_read' = [profile |-> user_profile, version |-> profile_version]
                        /\ rq_pc' = "computing"
                        /\ UNCHANGED rq_out
                   ELSE /\ rq_out' = RecommendationsReturned(
                                         DefaultRecommendations(all_content, rec_limit),
                                         FALSE, TRUE, profile_version)
                        /\ rq_pc' = "returned"
                        /\ UNCHANGED rq_read
        /\ UNCHANGED <<rec_pc, user_profile, user_engagement, all_content, rec_limit,
                       recommendations, profile_stored, profile_version, cache_reachable>>
        /\ UNCHANGED <<now, cacheOpVars, searchVars, ctxVars, convVars>>

\* the rest of get_personalized_recommendations: the analytics are read, the
\* list is generated from the profile read before, cached for an hour and
\* returned
RequestFinish ==
    LET cache_key == RecommendationsCacheKey("u", rec_limit)
        list == GenerateRecommendations(all_content, rq_read.profile, user_engagement, rec_limit)
    IN  /\ rq_pc = "computing"
        /\ memory_cache' = CacheAfterGuardedSet(cache_reachable, memory_cache, cache_key, list,
                                                RecommendationsCacheTtl, now)
        /\ rq_out' = RecommendationsReturned(list, FALSE, FALSE, rq_read.version)
        /\ rq_pc' = "returned"
        /\ UNCHANGED <<rec_pc, user_profile, user_engagement, all_content, rec_limit,
                       recommendations, profile_stored, profile_version, cache_reachable, rq_read>>
        /\ UNCHANGED <<now, cacheOpVars, searchVars, ctxVars, convVars>>

\* update_user_interests(user_id, new_interests) for a user with a profile,
\* the store accepting the write
UpdateUserInterests ==
    /\ rq_pc # "idle"
    /\ profile_stored
    /\ profile_version < MaxUpdates
    /\ \E new_interests \in { I \in SUBSET Terms : Cardinality(I) = 1 } :
          user_profile' = [user_profile EXCEPT !.interests = @ \cup new_interests]
    /\ memory_cache' = CacheAfterClearUser(cache_reachable, memory_cache, "u")
    /\ profile_version' = profile_version + 1
    /\ UNCHANGED <<rec_pc, user_engagement, all_content, rec_limit, recommendations,
                   profile_stored, cache_reachable, rq_pc, rq_read, rq_out>>
    /\ UNCHANGED <<now, cacheOpVars, searchVars, ctxVars, convVars>>

RequestListings == { s \in StoreListings : Len(s) = MaxContent }

RequestInit ==
    /\ rec_pc = "idle"
    /\ user_profile \in Profiles
    /\ user_engagement \in {NoEngagement, [present |-> TRUE, conversation_data |-> << >>]}
    /\ all_content \in RequestListings
    /\ rec_limit \in 1..MaxLimit
    /\ recommendations = <<>>
    /\ profile_stored \in BOOLEAN
    /\ profile_version = 0
    /\ cache_reachable \in BOOLEAN
    /\ rq_pc = "ready"
    /\ rq_read = NoProfileRead
    /\ rq_out = NoRecommendationsReturn

RequestNext == RequestStart \/ RequestFinish \/ UpdateUserInterests

RecInit ==
    /\ rec_pc = "input"
    /\ user_profile \in Profiles
    /\ user_engagement \in Engagements
    /\ all_content \in StoreListings
    /\ rec_limit \in 0..MaxLimit
    /\ recommendations = <<>>
    /\ RequestIdle

RecIdle ==
    /\ rec_pc = "idle"
    /\ user_profile = [interests |-> {}, experience_level |-> "beginner"]
    /\ user_engagement = NoEngagement
    /\ all_content = <<>>
    /\ rec_limit = 0
    /\ recommendations = <<>>
    /\ RequestIdle

\* one call of _generate_recommendations(user_profile, user_engagement, limit)
GenerateRecommendationsCall ==
    /\ rec_pc = "input"
    /\ recommendations' = GenerateRecommendations(all_content, user_profile,
                                                  user_engagement, rec_limit)
    /\ rec_pc' = "generated"
    /\ UNCHANGED <<user_profile, user_engagement, all_content, rec_limit, reqVars>>
    /\ UNCHANGED <<cacheVars, cacheOpVars, searchVars, ctxVars, convVars>>

\* get_personalized_recommendations when the store has no profile for the user:
\* "return self._get_default_recommendations(limit)"
DefaultRecommendationsCall ==
    /\ rec_pc = "input"
    /\ recommendations' = DefaultRecommendations(all_content, rec_limit)
    /\ rec_pc' = "defaulted"
    /\ UNCHANGED <<user_profile, user_engagement, all_content, rec_limit, reqVars>>
    /\ UNCHANGED <<cacheVars, cacheOpVars, searchVars, ctxVars, convVars>>

RecNext == GenerateRecommendationsCall \/ DefaultRecommendationsCall

(***************************************************************************)
(* Cache Layer, in-process map mode  (database/cache_manager.py)           *)
(* memory_cache is a function from the keys present to                     *)
(* [value, expires_at]; an entry stays in the map until a read finds it    *)
(* expired or it is deleted.                                               *)
(***************************************************************************)
\* ---- the CacheManager operations on their own ---------------------------
\* bounds
MaxTtl == 2
MaxCacheTime == 3
MaxCounter == 2

\* keys "a:1" and "b:1", and the glob patterns "a:*" and "*"
CacheKeys == { <<"a", "1">>, <<"b", "1">> }
CachePatterns == { <<"a", "*">>, <<"*", "*">> }
HashFields == {"f"}
Ttls == 1..MaxTtl

\* stored values: a number, or a dict given as its set of <<field, value>> pairs
IntValue(n) == [kind |-> "int", n |-> n, h |-> {}]
HashValue(h) == [kind |-> "hash", n |-> 0, h |-> h]
NoValue == [kind |-> "none", n |-> 0, h |-> {}]

\* fnmatch.fnmatch(key, pattern)
FnMatch(key, pattern) == \A i \in 1..2 : pattern[i] = "*" \/ pattern[i] = key[i]

\* value read by get: the stored value while the entry is live
CacheGet(cache, key, t) == IF CacheLive(cache, key, t) THEN cache[key].value ELSE NoValue

\* the map after expire(key, ttl)
CacheAfterExpire(cache, key, ttl, t) ==
    IF key \in DOMAIN cache
    THEN [cache EXCEPT ![key].expires_at = t + ttl]
    ELSE cache

\* value[field] = v on a dict
HashPut(h, field, v) == { p \in h : p[1] # field } \cup { <<field, v>> }

NoReturn == [op |-> "none", key |-> <<"", "">>, ok |-> FALSE, value |-> NoValue, stale |-> FALSE]

Returned(op, key, ok, value) ==
    [op |-> op, key |-> key, ok |-> ok, value |-> value, stale |-> key \in expired]

\* the entries of `cache` that are, or have been since their last set, past expiry
StillExpired(cache, was, t) ==
    { k \in DOMAIN cache : k \in was \/ cache[k].expires_at <= t }

NoRedisReturn == [ok |-> FALSE, value |-> NoValue]

CacheOpIdle ==
    /\ cache_ret = NoReturn
    /\ expired = {}
    /\ redis_store = EmptyCache
    /\ redis_ret = NoRedisReturn

CacheIdle ==
    /\ memory_cache = EmptyCache
    /\ now = 0
    /\ CacheOpIdle

CacheInit == CacheIdle

\* set(key, value, ttl)
Set(key, n, ttl) ==
    /\ memory_cache' = CacheAfterSet(memory_cache, key, IntValue(n), ttl, now)
    /\ expired' = expired \ {key}
    /\ cache_ret' = Returned("set", key, TRUE, NoValue)
    /\ UNCHANGED now

\* get(key)
Get(key) ==
    /\ memory_cache' = CacheAfterRead(memory_cache, key, now)
    /\ expired' = expired \cap DOMAIN memory_cache'
    /\ cache_ret' = Returned("get", key, CacheLive(memory_cache, key, now),
                             CacheGet(memory_cache, key, now))
    /\ UNCHANGED now

\* delete(key)
Delete(key) ==
    /\ memory_cache' = IF key \in DOMAIN memory_cache THEN CacheRemove(memory_cache, key)
                       ELSE memory_cache
    /\ expired' = expired \ {key}
    /\ cache_ret' = Returned("delete", key, key \in DOMAIN memory_cache, NoValue)
    /\ UNCHANGED now

\* exists(key)
Exists(key) ==
    /\ memory_cache' = CacheAfterRead(memory_cache, key, now)
    /\ expired' = expired \cap DOMAIN memory_cache'
    /\ cache_ret' = Returned("exists", key, CacheLive(memory_cache, key, now), NoValue)
    /\ UNCHANGED now

\* get_ttl(key): the remaining seconds, or -1; the return value is the `n` field
GetTtl(key) ==
    /\ cache_ret' = Returned("get_ttl", key, CacheLive(memory_cache, key, now),
                             IF CacheLive(memory_cache, key, now)
                             THEN IntValue(memory_cache[key].expires_at - now)
                             ELSE IntValue(0 - 1))
    /\ UNCHANGED <<memory_cache, now, expired>>

\* set_hash(key, field, value, ttl).  A missing key gets an empty dict with a
\* fresh expiry; an existing entry keeps its expiry; item assignment on a
\* number raises and the call returns False.
SetHash(key, field, v, ttl) ==
    LET created == IF key \in DOMAIN memory_cache THEN memory_cache
                   ELSE CacheAfterSet(memory_cache, key, HashValue({}), ttl, now)
        is_dict == created[key].value.kind = "hash"
    IN  /\ memory_cache' =
              IF is_dict
              THEN [created EXCEPT ![key].value = HashValue(HashPut(@.h, field, v))]
              ELSE created
        /\ expired' = expired
        /\ cache_ret' = Returned("set_hash", key, is_dict, NoValue)
        /\ UNCHANGED now

\* get_hash(key, field): value.get(field) of a live dict; .get on a number
\* raises inside the try and None is returned
GetHash(key, field) ==
    LET live == CacheLive(memory_cache, key, now)
        found == live /\ memory_cache[key].value.kind = "hash"
                      /\ \E p \in memory_cache[key].value.h : p[1] = field
    IN  /\ memory_cache' = CacheAfterRead(memory_cache, key, now)
        /\ expired' = expired \cap DOMAIN memory_cache'
        /\ cache_ret' = Returned("get_hash", key, found,
                                 IF found
                                 THEN IntValue((CHOOSE p \in memory_cache[key].value.h :
                                                    p[1] = field)[2])
                                 ELSE NoValue)
        /\ UNCHANGED now

\* get_all_hash(key): value.copy() of a live dict
GetAllHash(key) ==
    LET live == CacheLive(memory_cache, key, now)
        found == live /\ memory_cache[key].value.kind = "hash"
    IN  /\ memory_cache' = CacheAfterRead(memory_cache, key, now)
        /\ expired' = expired \cap DOMAIN memory_cache'
        /\ cache_ret' = Returned("get_all_hash", key, found,
                                 IF found THEN memory_cache[key].value ELSE NoValue)
        /\ UNCHANGED now

\* increment(key, amount, ttl): get(key) or 0, plus amount, then set; adding to
\* a dict raises after the get and None is returned
Increment(key, amount, ttl) ==
    LET after_get == CacheAfterRead(memory_cache, key, now)
        current == CacheGet(memory_cache, key, now)
        is_number == current.kind # "hash"
        new_value == current.n + amount
    IN  /\ new_value <= MaxCounter
        /\ memory_cache' = IF is_number
                           THEN CacheAfterSet(after_get, key, IntValue(new_value), ttl, now)
                           ELSE after_get
        /\ expired' = IF is_number THEN expired \ {key} ELSE expired \cap DOMAIN after_get
        /\ cache_ret' = Returned("increment", key, is_number,
                                 IF is_number THEN IntValue(new_value) ELSE NoValue)
        /\ UNCHANGED now

\* expire(key, ttl)
Expire(key, ttl) ==
    /\ memory_cache' = CacheAfterExpire(memory_cache, key, ttl, now)
    /\ expired' = expired
    /\ cache_ret' = Returned("expire", key, key \in DOMAIN memory_cache, NoValue)
    /\ UNCHANGED now

\* clear_pattern(pattern); the return value is the `n` field
ClearPattern(pattern) ==
    LET keys_to_delete == { k \in DOMAIN memory_cache : FnMatch(k, pattern) }
    IN  /\ memory_cache' = [ k \in DOMAIN memory_cache \ keys_to_delete |-> memory_cache[k] ]
        /\ expired' = expired \ keys_to_delete
        /\ cache_ret' = [op |-> "clear_pattern", key |-> pattern, ok |-> TRUE,
                         value |-> IntValue(Cardinality(keys_to_delete)), stale |-> FALSE]
        /\ UNCHANGED now

\* one second passes
CacheTick ==
    /\ now < MaxCacheTime
    /\ now' = now + 1
    /\ expired' = StillExpired(memory_cache, expired, now')
    /\ UNCHANGED <<memory_cache, cache_ret>>

CacheOnly == UNCHANGED <<recVars, searchVars, ctxVars, convVars, backingVars>>

CacheSetStep ==
    /\ \E k \in CacheKeys, n \in 1..MaxCounter, ttl \in Ttls : Set(k, n, ttl)
    /\ CacheOnly
CacheGetStep ==
    /\ \E k \in CacheKeys : Get(k)
    /\ CacheOnly
CacheDeleteStep ==
    /\ \E k \in CacheKeys : Delete(k)
    /\ CacheOnly
CacheExistsStep ==
    /\ \E k \in CacheKeys : Exists(k)
    /\ CacheOnly
CacheGetTtlStep ==
    /\ \E k \in CacheKeys : GetTtl(k)
    /\ CacheOnly
CacheSetHashStep ==
    /\ \E k \in CacheKeys, f \in HashFields, ttl \in Ttls : SetHash(k, f, 1, ttl)
    /\ CacheOnly
CacheGetHashStep ==
    /\ \E k \in CacheKeys, f \in HashFields : GetHash(k, f)
    /\ CacheOnly
CacheGetAllHashStep ==
    /\ \E k \in CacheKeys : GetAllHash(k)
    /\ CacheOnly
CacheIncrementStep ==
    /\ \E k \in CacheKeys, ttl \in Ttls : Increment(k, 1, ttl)
    /\ CacheOnly
CacheExpireStep ==
    /\ \E k \in CacheKeys, ttl \in Ttls : Expire(k, ttl)
    /\ CacheOnly
CacheClearPatternStep ==
    /\ \E pattern \in CachePatterns : ClearPattern(pattern)
    /\ CacheOnly
CacheTickStep ==
    /\ CacheTick
    /\ CacheOnly

\* ---- the same calls through the redis branch ------------------------------
\* The backing store holds a key until its expiry; a value written by set is
\* a pickle (kind "int"), a value written by incrby is a bare number (kind
\* "counter"), a value written by hset is a hash.
CounterValue(n) == [kind |-> "counter", n |-> n, h |-> {}]

\* the keys the store still holds at time t
RedisLive(store, t) == [ k \in { k \in DOMAIN store : store[k].expires_at > t } |-> store[k] ]

RedisKind(store, key, t) ==
    IF key \in DOMAIN RedisLive(store, t) THEN store[key].value.kind ELSE "none"

RedisOutcome(store, ok, value) == [store |-> store, ok |-> ok, value |-> value]

\* set: redis_client.setex(key, ttl, pickle)
RedisSet(store, key, n, ttl, t) ==
    RedisOutcome(CacheAfterSet(RedisLive(store, t), key, IntValue(n), ttl, t), TRUE, NoValue)

\* get: redis_client.get(key) and _deserialize_data; a hash raises WRONGTYPE,
\* a bare counter is no pickle: both give None
RedisGet(store, key, t) ==
    LET found == RedisKind(store, key, t) = "int"
    IN  RedisOutcome(RedisLive(store, t), found, IF found THEN store[key].value ELSE NoValue)

\* delete: bool(redis_client.delete(key))
RedisDelete(store, key, t) ==
    LET live == RedisLive(store, t)
    IN  RedisOutcome([ k \in DOMAIN live \ {key} |-> live[k] ], key \in DOMAIN live, NoValue)

\* exists: bool(redis_client.exists(key))
RedisExists(store, key, t) ==
    RedisOutcome(RedisLive(store, t), key \in DOMAIN RedisLive(store, t), NoValue)

\* set_hash: redis_client.hset(key, field, pickle), then expire(key, ttl);
\* hset on a string key raises; the result is bool(number of new fields)
RedisSetHash(store, key, field, v, ttl, t) ==
    LET live == RedisLive(store, t)
        kind == RedisKind(store, key, t)
        old == IF kind = "hash" THEN live[key].value.h ELSE {}
        is_new == ~\E p \in old : p[1] = field
    IN  IF kind \in {"int", "counter"} THEN RedisOutcome(live, FALSE, NoValue)
        ELSE RedisOutcome(CacheAfterSet(live, key, HashValue(HashPut(old, field, v)), ttl, t),
                          is_new, NoValue)

\* get_hash: redis_client.hget(key, field) and _deserialize_data
RedisGetHash(store, key, field, t) ==
    LET found == /\ RedisKind(store, key, t) = "hash"
                 /\ \E p \in store[key].value.h : p[1] = field
    IN  RedisOutcome(RedisLive(store, t), found,
                     IF found THEN IntValue((CHOOSE p \in store[key].value.h : p[1] = field)[2])
                     ELSE NoValue)

\* increment: redis_client.incrby(key, amount), then expire(key, ttl); incrby
\* on a pickle or on a hash raises
RedisIncrement(store, key, amount, ttl, t) ==
    LET live == RedisLive(store, t)
        kind == RedisKind(store, key, t)
        new_value == (IF kind = "counter" THEN live[key].value.n ELSE 0) + amount
    IN  IF kind \in {"int", "hash"} THEN RedisOutcome(live, FALSE, NoValue)
        ELSE RedisOutcome(CacheAfterSet(live, key, CounterValue(new_value), ttl, t),
                          TRUE, IntValue(new_value))

\* expire: bool(redis_client.expire(key, ttl))
RedisExpire(store, key, ttl, t) ==
    LET live == RedisLive(store, t)
    IN  RedisOutcome(CacheAfterExpire(live, key, ttl, t), key \in DOMAIN live, NoValue)

\* the redis branch of a call, next to its in-process branch
Backing(outcome) ==
    /\ redis_store' = outcome.store
    /\ redis_ret' = [ok |-> outcome.ok, value |-> outcome.value]

BothOnly == UNCHANGED <<recVars, searchVars, ctxVars, convVars>>

\* the key the two branches are compared on
BothKey == <<"a", "1">>

BothSet ==
    /\ \E n \in 1..MaxCounter, ttl \in Ttls :
          Set(BothKey, n, ttl) /\ Backing(RedisSet(redis_store, BothKey, n, ttl, now))
    /\ BothOnly
BothGet ==
    /\ Get(BothKey) /\ Backing(RedisGet(redis_store, BothKey, now))
    /\ BothOnly
BothDelete ==
    /\ Delete(BothKey) /\ Backing(RedisDelete(redis_store, BothKey, now))
    /\ BothOnly
BothExists ==
    /\ Exists(BothKey) /\ Backing(RedisExists(redis_store, BothKey, now))
    /\ BothOnly
BothSetHash ==
    /\ \E f \in HashFields, ttl \in Ttls :
          SetHash(BothKey, f, 1, ttl) /\ Backing(RedisSetHash(redis_store, BothKey, f, 1, ttl, now))
    /\ BothOnly
BothGetHash ==
    /\ \E f \in HashFields : GetHash(BothKey, f) /\ Backing(RedisGetHash(redis_store, BothKey, f, now))
    /\ BothOnly
BothIncrement ==
    /\ \E ttl \in Ttls :
          LET outcome == RedisIncrement(redis_store, BothKey, 1, ttl, now)
          IN  /\ outcome.value.n <= MaxCounter
              /\ Increment(BothKey, 1, ttl)
              /\ Backing(outcome)
    /\ BothOnly
BothExpire ==
    /\ \E ttl \in Ttls : Expire(BothKey, ttl) /\ Backing(RedisExpire(redis_store, BothKey, ttl, now))
    /\ BothOnly
BothTick ==
    /\ CacheTick
    /\ UNCHANGED backingVars
    /\ BothOnly

BothNext ==
    \/ BothSet \/ BothGet \/ BothDelete \/ BothExists \/ BothSetHash \/ BothGetHash
    \/ BothIncrement \/ BothExpire \/ BothTick

CacheNext ==
    \/ CacheSetStep \/ CacheGetStep \/ CacheDeleteStep \/ CacheExistsStep
    \/ CacheGetTtlStep \/ CacheSetHashStep \/ CacheGetHashStep \/ CacheGetAllHashStep
    \/ CacheIncrementStep \/ CacheExpireStep \/ CacheClearPatternStep \/ CacheTickStep

(***************************************************************************)
(* Similarity Search Engine  (ai_models/rag_system/vector_search.py)       *)
(* Distances, relevances and similarities are in thousandths.              *)
(***************************************************************************)
\* VECTOR_SEARCH_CONFIG
SimilarityThreshold == 700
MmrDiversityThreshold == 300
DefaultMaxResults == 5

\* ttl of a cached search result
SearchCacheTtl == 3600

\* the float 1.0 for distances
DistanceOne == 1000

\* bounds of the search inputs
MaxCandidates == 3
MaxSearchLimit == 3
MaxSearchCalls == 1

\* distances the index reports: a near hit, the two sides of the similarity
\* threshold (1 - 0.7 = 0.3), and a far document of an unnormalised metric
Distances == {100, 300, 310, 2500}

\* metadata of the indexed documents
Metadatas ==
    { [category |-> "diversification", difficulty_level |-> "beginner", source |-> "web"],
      [category |-> "diversification", difficulty_level |-> "intermediate", source |-> "web"],
      [category |-> "bonds", difficulty_level |-> "intermediate", source |-> "book"] }

\* one formatted result of vector_store.search_similar; the index gives every
\* document its own id, which the search code never reads: the id of a result
\* is its rank in the index's answer
IndexResult(rank, distance, metadata) ==
    [id |-> rank, distance |-> distance, metadata |-> metadata]

\* the index answers nearest first
AnswersOfLength(n) ==
    { [ i \in 1..n |-> IndexResult(i, d[i], m[i]) ] :
        d \in { e \in [1..n -> Distances] : \A i \in 1..(n - 1) : e[i] <= e[i + 1] },
        m \in [1..n -> Metadatas] }

IndexAnswers == UNION { AnswersOfLength(n) : n \in 0..MaxCandidates }

IsIndexAnswer(r) == \A i \in 1..(Len(r) - 1) : r[i].distance <= r[i + 1].distance

\* Scenario B: relevances 0.9, 0.75, 0.6, 0.5, 0.4
ScenarioBDistances == <<100, 250, 400, 500, 600>>

ScenarioBAnswer ==
    [ i \in 1..Len(ScenarioBDistances) |->
        IndexResult(i, ScenarioBDistances[i],
                    [category |-> "diversification", difficulty_level |-> "beginner",
                     source |-> "web"]) ]

\* vector_store.search_similar(n_results = n): the n nearest documents
SearchSimilar(index, n) == Take(index, n)

\* _calculate_similarity
CalculateSimilarity(result1, result2) ==
    (IF result1.metadata.category = result2.metadata.category THEN 500 ELSE 0)
    + (IF result1.metadata.difficulty_level = result2.metadata.difficulty_level THEN 300 ELSE 0)
    + (IF result1.metadata.source = result2.metadata.source THEN 200 ELSE 0)

\* max similarity of a candidate to the already selected results
RECURSIVE MaxSimilarity(_, _)
MaxSimilarity(candidate, selected) ==
    IF selected = <<>> THEN 0
    ELSE Max(CalculateSimilarity(candidate, selected[1]),
             MaxSimilarity(candidate, Tail(selected)))

\* mmr_score = relevance - diversity_threshold * max_similarity
MmrScore(candidate, selected) ==
    (DistanceOne - candidate.distance)
    - (MmrDiversityThreshold * MaxSimilarity(candidate, selected)) \div DistanceOne

\* the inner for loop: best_idx over remaining[i..], starting from (best_score, best_idx)
RECURSIVE BestIndex(_, _, _, _, _)
BestIndex(remaining, selected, i, best_score, best_idx) ==
    IF i > Len(remaining) THEN best_idx
    ELSE LET mmr_score == MmrScore(remaining[i], selected)
         IN  IF mmr_score > best_score
             THEN BestIndex(remaining, selected, i + 1, mmr_score, i)
             ELSE BestIndex(remaining, selected, i + 1, best_score, best_idx)

RemoveAt(s, i) == SubSeq(s, 1, i - 1) \o SubSeq(s, i + 1, Len(s))

\* the while loop of _select_mmr_results; best_score starts at -1, best_idx at
\* the first remaining candidate
RECURSIVE MmrLoop(_, _, _)
MmrLoop(selected, remaining, limit) ==
    IF Len(selected) < limit /\ remaining # <<>>
    THEN LET best_idx == BestIndex(remaining, selected, 1, 0 - DistanceOne, 1)
         IN  MmrLoop(Append(selected, remaining[best_idx]), RemoveAt(remaining, best_idx), limit)
    ELSE selected

\* a selection whose loop stops one pick late
SelectMmrResultsOneMore(results, limit) ==
    IF Len(results) <= limit THEN results
    ELSE MmrLoop(<<results[1]>>, Tail(results), limit + 1)

\* _select_mmr_results
SelectMmrResults(results, limit) ==
    IF Len(results) <= limit THEN results
    ELSE MmrLoop(<<results[1]>>, Tail(results), limit)

\* _similarity_search (no filters)
SimilaritySearch(index, limit) == Take(SearchSimilar(index, limit * 2), limit)

\* _mmr_search (no filters)
MmrSearch(index, limit) == SelectMmrResults(SearchSimilar(index, limit * 3), limit)

\* a threshold test that compares the distance with the threshold itself
WithinThresholdSwapped(result) == result.distance <= SimilarityThreshold

\* "result.get('distance', 1.0) <= (1.0 - self.similarity_threshold)"
WithinThreshold(result) == result.distance <= DistanceOne - SimilarityThreshold

\* the uncached part of search_educational_content
FilteredResults(index, type, limit) ==
    LET results == IF type = "mmr" THEN MmrSearch(index, limit)
                   ELSE SimilaritySearch(index, limit)
    IN  SelectSeq(results, WithinThreshold)

\* f"search:{hash(query)}:{hash(str(filters))}:{limit}" for the one query
SearchCacheKey(limit) == <<"search", limit>>

\* cache_manager.get(cache_key) for a list-valued key; None is the empty list
CachedList(cache, key, t) == IF CacheLive(cache, key, t) THEN cache[key].value ELSE <<>>

NoCall == [op |-> "none", from_cache |-> FALSE, failure |-> "none"]

SearchInit ==
    /\ search_pc = "ready"
    /\ \/ index_results \in { r \in IndexAnswers : IsIndexAnswer(r) }
       \/ index_results = ScenarioBAnswer
    /\ search_type \in {"similarity", "mmr"}
    /\ search_limit \in (0..MaxSearchLimit) \cup {DefaultMaxResults}
    /\ search_call = NoCall
    /\ search_out = <<>>
    /\ index_calls = 0

SearchIdle ==
    /\ search_pc = "idle"
    /\ index_results = <<>>
    /\ search_type = "similarity"
    /\ search_limit = 0
    /\ search_call = NoCall
    /\ search_out = <<>>
    /\ index_calls = 0

\* search_educational_content(query, None, limit), answered from the cache
SearchFromCache ==
    LET cache_key == SearchCacheKey(search_limit)
        cached_results == CachedList(memory_cache, cache_key, now)
    IN  /\ search_pc = "ready"
        /\ cached_results # <<>>
        /\ memory_cache' = CacheAfterRead(memory_cache, cache_key, now)
        /\ search_out' = cached_results
        /\ search_call' = [op |-> "search", from_cache |-> TRUE, failure |-> "none"]
        /\ UNCHANGED <<search_pc, index_results, search_type, search_limit, index_calls, now>>
        /\ UNCHANGED <<recVars, cacheOpVars, ctxVars, convVars>>

\* search_educational_content(query, None, limit), answered by the index,
\* while fewer than max_calls calls have reached the index
AnsweredByIndex(max_calls) ==
    LET cache_key == SearchCacheKey(search_limit)
        cached_results == CachedList(memory_cache, cache_key, now)
        filtered_results == FilteredResults(index_results, search_type, search_limit)
    IN  /\ search_pc = "ready"
        /\ index_calls < max_calls
        /\ cached_results = <<>>
        /\ memory_cache' = CacheAfterSet(CacheAfterRead(memory_cache, cache_key, now),
                                         cache_key, filtered_results, SearchCacheTtl, now)
        /\ search_out' = filtered_results
        /\ search_call' = [op |-> "search", from_cache |-> FALSE, failure |-> "none"]
        /\ index_calls' = index_calls + 1
        /\ UNCHANGED <<search_pc, index_results, search_type, search_limit, now>>
        /\ UNCHANGED <<recVars, cacheOpVars, ctxVars, convVars>>

SearchFromIndex == AnsweredByIndex(MaxSearchCalls)

\* what can fail below search_educational_content
SearchFailures == {"embedding", "index"}

\* a failure that leaves the answer of the index as it is
FailedAnswerIgnored(index, failure) == index

\* vector_store.search_similar under a failure.  An index failure is caught:
\* "return []".  An embedding failure is caught by generate_embedding, which
\* returns the zero vector; the cosine index then reports distance 1.0 for
\* every document.
FailedAnswer(index, failure) ==
    IF failure = "index" THEN << >>
    ELSE [ i \in 1..Len(index) |-> [index[i] EXCEPT !.distance = DistanceOne] ]

\* search_educational_content(query, None, limit) while the embedding adapter
\* or the index fails
SearchFails ==
    LET cache_key == SearchCacheKey(search_limit)
        cached_results == CachedList(memory_cache, cache_key, now)
    IN  /\ search_pc = "ready"
        /\ index_calls < MaxSearchCalls
        /\ cached_results = <<>>
        /\ \E failure \in SearchFailures :
              LET filtered_results == FilteredResults(FailedAnswer(index_results, failure),
                                                      search_type, search_limit)
              IN  /\ memory_cache' = CacheAfterSet(CacheAfterRead(memory_cache, cache_key, now),
                                                   cache_key, filtered_results, SearchCacheTtl, now)
                  /\ search_out' = filtered_results
                  /\ search_call' = [op |-> "search", from_cache |-> FALSE, failure |-> failure]
        /\ index_calls' = index_calls + 1
        /\ UNCHANGED <<search_pc, index_results, search_type, search_limit, now>>
        /\ UNCHANGED <<recVars, cacheOpVars, ctxVars, convVars>>

\* _select_mmr_results(results, query, limit) applied to the index's answer
SelectMmrCall ==
    /\ search_pc = "ready" /\ search_call = NoCall
    /\ search_limit <= MaxSearchLimit
    /\ search_out' = SelectMmrResults(index_results, search_limit)
    /\ search_call' = [op |-> "select", from_cache |-> FALSE, failure |-> "none"]
    /\ search_pc' = "selected"
    /\ UNCHANGED <<index_results, search_type, search_limit, index_calls>>
    /\ UNCHANGED <<cacheVars, cacheOpVars, recVars, ctxVars, convVars>>

\* time passes: half the ttl of a cached search result
SearchTick ==
    /\ search_pc = "ready"
    /\ now < SearchCacheTtl
    /\ now' = now + SearchCacheTtl \div 2
    /\ UNCHANGED <<memory_cache, cacheOpVars, searchVars, recVars, ctxVars, convVars>>

\* ---- _select_mmr_results over the whole range of the cosine distance ------
\* cosine distances between 0 and 2: a near hit and three far documents
FarDistances == {100, 1800, 1850, 1900}

FarAnswersOfLength(n) ==
    { [ i \in 1..n |-> IndexResult(i, d[i], m[i]) ] :
        d \in { e \in [1..n -> FarDistances] : \A i \in 1..(n - 1) : e[i] <= e[i + 1] },
        m \in [1..n -> Metadatas] }

\* Scenario C: three "diversification" near-duplicates and a "bonds" document
\* of lower relevance
ScenarioCAnswer ==
    << IndexResult(1, 100, [category |-> "diversification", difficulty_level |-> "beginner", source |-> "web"]),
       IndexResult(2, 150, [category |-> "diversification", difficulty_level |-> "beginner", source |-> "web"]),
       IndexResult(3, 200, [category |-> "diversification", difficulty_level |-> "beginner", source |-> "web"]),
       IndexResult(4, 300, [category |-> "bonds", difficulty_level |-> "intermediate", source |-> "book"]) >>

MmrInit ==
    /\ search_pc = "ready"
    /\ \/ index_results \in UNION { FarAnswersOfLength(n) : n \in 0..MaxCandidates }
       \/ index_results = ScenarioCAnswer
    /\ search_type = "mmr"
    /\ search_limit \in 1..MaxSearchLimit
    /\ search_call = NoCall
    /\ search_out = <<>>
    /\ index_calls = 0

MmrNext == SelectMmrCall

\* ---- the same search_educational_content call repeated ---------------------
\* bound: calls that reach the index
MaxRepeatCalls == 2

\* bound: documents in the index's answer
MaxRepeated == 2

RepeatInit ==
    /\ search_pc = "ready"
    /\ index_results \in { r \in IndexAnswers : IsIndexAnswer(r) /\ Len(r) <= MaxRepeated }
    /\ search_type \in {"similarity", "mmr"}
    /\ search_limit \in (0..MaxSearchLimit) \cup {DefaultMaxResults}
    /\ search_call = NoCall
    /\ search_out = <<>>
    /\ index_calls = 0

SearchFromIndexAgain == AnsweredByIndex(MaxRepeatCalls)

RepeatNext == SearchFromCache \/ SearchFromIndexAgain \/ SearchTick

\* ---- filters: _apply_filters and search_by_user_profile --------------------
\* a filter value: a scalar, or a list given as the set of its elements
ScalarFilter(v) == [is_list |-> FALSE, values |-> {v}]
ListFilter(vs) == [is_list |-> TRUE, values |-> vs]

\* "metadata[filter_key] not in filter_value" / "metadata[filter_key] != filter_value"
FilterAccepts(filter_value, v) == v \in filter_value.values

\* the test of one result: a filter whose key the metadata lacks is skipped
MatchesFilters(result, filters) ==
    \A filter_key \in DOMAIN filters :
        filter_key \in DOMAIN result.metadata =>
            FilterAccepts(filters[filter_key], result.metadata[filter_key])

\* _apply_filters
ApplyFilters(results, filters) ==
    SelectSeq(results, LAMBDA result : MatchesFilters(result, filters))

\* the filters search_by_user_profile builds from age, experience_level and
\* interests[:3]
AgeFilter(age) ==
    IF age < 16 THEN ScalarFilter("13-15")
    ELSE IF age > 18 THEN ScalarFilter("16-19")
    ELSE ListFilter({"13-15", "16-19", "all_teens"})

DifficultyFilter(experience) ==
    IF experience = "beginner" THEN ScalarFilter("beginner")
    ELSE IF experience = "intermediate" THEN ListFilter({"beginner", "intermediate"})
    ELSE ListFilter({"beginner", "intermediate", "advanced"})

ProfileFilters(profile) ==
    LET base == [ k \in {"target_age", "difficulty_level"} |->
                    IF k = "target_age" THEN AgeFilter(profile.age)
                    ELSE DifficultyFilter(profile.experience_level) ]
    IN  IF profile.interests = << >> THEN base
        ELSE [ k \in DOMAIN base \cup {"category"} |->
                 IF k = "category" THEN ListFilter(Range(Take(profile.interests, 3)))
                 ELSE base[k] ]

\* _similarity_search and _mmr_search with filters, then the threshold
FilteredSearch(index, type, filters, limit) ==
    LET results == IF type = "mmr"
                   THEN SelectMmrResults(ApplyFilters(SearchSimilar(index, limit * 3), filters), limit)
                   ELSE Take(ApplyFilters(SearchSimilar(index, limit * 2), filters), limit)
    IN  SelectSeq(results, WithinThreshold)

\* metadata of indexed documents; a document may lack any of the fields
FilterMetadatas ==
    { [category |-> "stocks", difficulty_level |-> "beginner", target_age |-> "13-15"],
      [category |-> "stocks", difficulty_level |-> "advanced", target_age |-> "16-19"],
      [category |-> "bonds", difficulty_level |-> "intermediate", target_age |-> "all_teens"],
      [category |-> "bonds", difficulty_level |-> "beginner"],
      [category |-> "stocks", target_age |-> "16-19"],
      [difficulty_level |-> "beginner", target_age |-> "13-15"] }

\* bound: documents in the index's answer
MaxFiltered == 2

FilterAnswers ==
    UNION { { [ i \in 1..n |-> IndexResult(i, d[i], m[i]) ] :
                d \in { e \in [1..n -> {100, 200}] : \A i \in 1..(n - 1) : e[i] <= e[i + 1] },
                m \in [1..n -> FilterMetadatas] } : n \in 0..MaxFiltered }

\* filters handed to _apply_filters directly
FilterPool ==
    { [category |-> ScalarFilter("stocks")],
      [category |-> ListFilter({"stocks", "bonds"}), difficulty_level |-> ScalarFilter("beginner")],
      [target_age |-> ListFilter({"13-15", "all_teens"}), difficulty_level |-> ListFilter({"beginner", "intermediate"})] }

SearchProfiles ==
    [ age : {15, 17, 19}, experience_level : Levels,
      interests : { << >>, << "stocks" >>, << "bonds", "stocks" >> } ]

FilterInit ==
    /\ search_pc = "ready"
    /\ index_results \in FilterAnswers
    /\ search_type \in {"similarity", "mmr"}
    /\ search_limit \in 1..MaxFiltered
    /\ search_call = NoCall
    /\ search_out = <<>>
    /\ index_calls = 0

\* _apply_filters(results, filters) applied to the index's answer
ApplyFiltersCall ==
    /\ search_pc = "ready" /\ search_call = NoCall
    /\ \E filters \in FilterPool :
          /\ search_out' = ApplyFilters(index_results, filters)
          /\ search_call' = [op |-> "filter", from_cache |-> FALSE, failure |-> "none",
                             filters |-> filters]
    /\ search_pc' = "selected"
    /\ UNCHANGED <<index_results, search_type, search_limit, index_calls>>
    /\ UNCHANGED <<cacheVars, cacheOpVars, recVars, ctxVars, convVars>>

\* search_by_user_profile(user_profile, query, limit), nothing cached: the
\* filters are built, the search runs and its result is cached
SearchByUserProfile ==
    /\ search_pc = "ready" /\ search_call = NoCall
    /\ \E profile \in SearchProfiles :
          LET filters == ProfileFilters(profile)
              cache_key == <<"search", filters, search_limit>>
              filtered_results == FilteredSearch(index_results, search_type, filters, search_limit)
          IN  /\ memory_cache' = CacheAfterSet(memory_cache, cache_key, filtered_results,
                                               SearchCacheTtl, now)
              /\ search_out' = filtered_results
              /\ search_call' = [op |-> "profile", from_cache |-> FALSE, failure |-> "none",
                                 profile |-> profile]
    /\ search_pc' = "selected"
    /\ index_calls' = index_calls + 1
    /\ UNCHANGED <<index_results, search_type, search_limit, now>>
    /\ UNCHANGED <<cacheOpVars, recVars, ctxVars, convVars>>

FilterNext == ApplyFiltersCall \/ SearchByUserProfile

SearchNext ==
    SearchFromCache \/ SearchFromIndex \/ SearchFails \/ SelectMmrCall \/ SearchTick

(***************************************************************************)
(* Context Aggregator  (ai_models/rag_system/context_retriever.py)         *)
(* One behaviour repeats one request.  The sub-sources (similarity search, *)
(* market data, news) hold data of a version that changes over time, so a  *)
(* bundle built later differs from one built earlier.                      *)
(***************************************************************************)
\* ttl of a cached bundle
ContextCacheTtl == 1800

\* bounds
MaxSourceVersion == 1
MaxContextCalls == 3

\* queries by what the keyword heuristics see in them; the query None makes
\* "query[:50]" raise
Queries ==
    { [text |-> "what is a bond", market |-> FALSE, news |-> FALSE, none |-> FALSE],
      [text |-> "latest AAPL stock news", market |-> TRUE, news |-> TRUE, none |-> FALSE],
      [text |-> "None", market |-> FALSE, news |-> FALSE, none |-> TRUE] }

ContextProfiles == {"no profile", "profile"}
ContextTypes == {"educational", "market", "news", "all"}

Requests == [query : Queries, user_profile : ContextProfiles, context_type : ContextTypes]

SubSources == {"search", "market", "news"}

\* f"context:{hash(query)}:{hash(str(user_profile))}:{context_type}"; hash is a
\* function of its argument within one process
ContextCacheKey(request) ==
    <<"context", request.query.text, request.user_profile, request.context_type>>

\* which sub-retrievals a request runs
UsesEducational(request) == request.context_type \in {"educational", "all"}
UsesMarket(request) == request.context_type \in {"market", "all"} /\ request.query.market
UsesNews(request) == request.context_type \in {"news", "all"} /\ request.query.news
UsesRecommendations(request) == request.user_profile # "no profile"

\* the result of one sub-retrieval over data of version v
SourceData(source, v) == << [source |-> source, version |-> v] >>

\* {"error": str(e)}
ErrorContext ==
    [ query |-> "", retrieved_at |-> 0, context_type |-> "", user_profile |-> "",
      educational_content |-> <<>>, market_data |-> <<>>, news_articles |-> <<>>,
      recommendations |-> <<>>, error |-> TRUE ]

\* what a sub-retrieval returns: its "except" turns a failure of its source
\* into []
SourceResult(source, v, failed) == IF source \in failed THEN << >> ELSE SourceData(source, v)

\* a retrieve_context that gives up when a sub-source fails
BuildContextFailFast(request, v, t, failed) == ErrorContext

\* context_data as filled by retrieve_context while the sources in "failed"
\* fail
BuildContext(request, v, t, failed) ==
    [ query |-> request.query.text,
      retrieved_at |-> t,
      context_type |-> request.context_type,
      user_profile |-> request.user_profile,
      educational_content |->
          IF UsesEducational(request) THEN SourceResult("search", v, failed) ELSE <<>>,
      market_data |-> IF UsesMarket(request) THEN SourceResult("market", v, failed) ELSE <<>>,
      news_articles |-> IF UsesNews(request) THEN SourceResult("news", v, failed) ELSE <<>>,
      recommendations |->
          IF UsesRecommendations(request) THEN SourceResult("search", v, failed) ELSE <<>>,
      error |-> FALSE ]

\* calls to the sub-sources made while a bundle is built
CallsMade(request) ==
    [ search |-> (IF UsesEducational(request) THEN 1 ELSE 0)
                 + (IF UsesRecommendations(request) THEN 1 ELSE 0),
      market |-> IF UsesMarket(request) THEN 1 ELSE 0,
      news   |-> IF UsesNews(request) THEN 1 ELSE 0 ]

NoCalls == [search |-> 0, market |-> 0, news |-> 0]

AddCalls(a, b) == [ x \in SubSources |-> a[x] + b[x] ]

NothingCached == [present |-> FALSE, at |-> 0, bundle |-> ErrorContext]

NoContextReturn ==
    [op |-> "none", bundle |-> ErrorContext, from_cache |-> FALSE, calls |-> NoCalls,
     failed |-> {}, version |-> 0,
     within_ttl |-> FALSE, first_bundle |-> ErrorContext]

\* the return of a call, with the sources that failed during it and what the
\* last caching call left behind
ContextReturned(bundle, from_cache, calls, failed) ==
    [op |-> "retrieve", bundle |-> bundle, from_cache |-> from_cache, calls |-> calls,
     failed |-> failed, version |-> source_version,
     within_ttl |-> ctx_cached.present /\ now - ctx_cached.at < ContextCacheTtl,
     first_bundle |-> ctx_cached.bundle]

(***************************************************************************)
(* _chunk_content.  A content string is described by its length and by    *)
(* the characters it holds at a few positions (0-based, as Python indexes  *)
(* them); every other position holds an ordinary letter.  The result is    *)
(* the prefix of the content that is kept and the text appended to it.     *)
(***************************************************************************)
ChunkSize == 1000

SentenceTerminators == {".", "?", "!"}

MarkChars == SentenceTerminators \cup {"a"}

MarkPositions == {350, 700, 701, 999, 1000}

ContentLengths == {900, ChunkSize, ChunkSize + 1, ChunkSize + 200}

Contents ==
    UNION {{[len |-> n, marks |-> m] : m \in [{p \in MarkPositions : p < n} -> MarkChars]}
           : n \in ContentLengths}

NoContent == [len |-> 0, marks |-> <<>>]

NotChunked == [kept |-> 0, appended |-> "", called |-> FALSE]

\* content (returned as it is)
Whole(content) == [kept |-> content.len, appended |-> "", called |-> TRUE]

\* content[:stop] + "..."
ContentPrefix(content, stop) == [kept |-> Min(stop, content.len), appended |-> "...", called |-> TRUE]

SetMax(S) == CHOOSE x \in S : \A y \in S : y <= x

\* content[:stop].rfind(char): the highest index below stop holding char, or -1
Rfind(content, stop, char) ==
    LET hits == {p \in DOMAIN content.marks : p < stop /\ content.marks[p] = char}
    IN  IF hits = {} THEN -1 ELSE SetMax(hits)

\* the same cut with any terminator in the chunk taken as a break point
ChunkContentAnyBreak(content) ==
    IF content.len <= ChunkSize THEN Whole(content)
    ELSE LET last_period == Rfind(content, ChunkSize, ".")
             last_question == Rfind(content, ChunkSize, "?")
             last_exclamation == Rfind(content, ChunkSize, "!")
             break_point == Max(last_period, Max(last_question, last_exclamation))
         IN  IF break_point >= 0
             THEN ContentPrefix(content, break_point + 1)
             ELSE ContentPrefix(content, ChunkSize)

\* break_point > self.chunk_size * 0.7, in tenths
ChunkContent(content) ==
    IF content.len <= ChunkSize THEN Whole(content)
    ELSE LET last_period == Rfind(content, ChunkSize, ".")
             last_question == Rfind(content, ChunkSize, "?")
             last_exclamation == Rfind(content, ChunkSize, "!")
             break_point == Max(last_period, Max(last_question, last_exclamation))
         IN  IF break_point * 10 > ChunkSize * 7
             THEN ContentPrefix(content, break_point + 1)
             ELSE ContentPrefix(content, ChunkSize)

ChunkIdle ==
    /\ chunk_content = NoContent
    /\ chunk_out = NotChunked

ChunkInit ==
    /\ chunk_content \in Contents
    /\ chunk_out = NotChunked

ChunkContentCall ==
    /\ ~chunk_out.called
    /\ chunk_out' = ChunkContent(chunk_content)
    /\ UNCHANGED <<chunk_content, ctx_request, source_version, sub_calls, ctx_ret, ctx_cached,
                   ctxStepVars>>
    /\ UNCHANGED <<recVars, cacheVars, cacheOpVars, searchVars, convVars>>

ChunkNext == ChunkContentCall

ContextInit ==
    /\ ctx_request \in Requests
    /\ source_version = 0
    /\ sub_calls = NoCalls
    /\ ctx_ret = NoContextReturn
    /\ ctx_cached = NothingCached
    /\ ctx_pc = "idle"
    /\ ctx_partial = ErrorContext
    /\ ctx_unresponsive = {}
    /\ ChunkIdle

ContextIdle ==
    /\ ctx_request = [query |-> CHOOSE q \in Queries : q.none, user_profile |-> "no profile",
                      context_type |-> "educational"]
    /\ source_version = 0
    /\ sub_calls = NoCalls
    /\ ctx_ret = NoContextReturn
    /\ ctx_cached = NothingCached
    /\ ctx_pc = "idle"
    /\ ctx_partial = ErrorContext
    /\ ctx_unresponsive = {}
    /\ ChunkIdle

ContextOnly == UNCHANGED <<recVars, cacheOpVars, searchVars, convVars, chunkVars>>

ContextCallsLeft == sub_calls.search + sub_calls.market + sub_calls.news < 2 * MaxContextCalls

\* retrieve_context: "if cached_context: return cached_context"
RetrieveFromCache ==
    LET cache_key == ContextCacheKey(ctx_request)
    IN  /\ ~ctx_request.query.none
        /\ CacheLive(memory_cache, cache_key, now)
        /\ ctx_ret' = ContextReturned(memory_cache[cache_key].value, TRUE, NoCalls, {})
        /\ UNCHANGED <<memory_cache, now, ctx_request, source_version, sub_calls, ctx_cached>>
        /\ UNCHANGED ctxStepVars
        /\ ContextOnly

\* retrieve_context: cache miss, the bundle is built, with [] for every
\* sub-source that fails, and cached for 30 minutes
RetrieveFromSources ==
    LET cache_key == ContextCacheKey(ctx_request)
    IN  /\ ~ctx_request.query.none
        /\ ContextCallsLeft
        /\ ~CacheLive(memory_cache, cache_key, now)
        /\ \E failed \in SUBSET SubSources :
              LET context_data == BuildContext(ctx_request, source_version, now, failed)
              IN  /\ memory_cache' = CacheAfterSet(CacheAfterRead(memory_cache, cache_key, now),
                                                   cache_key, context_data, ContextCacheTtl, now)
                  /\ ctx_ret' = ContextReturned(context_data, FALSE, CallsMade(ctx_request), failed)
                  /\ ctx_cached' = [present |-> TRUE, at |-> now, bundle |-> context_data]
        /\ sub_calls' = AddCalls(sub_calls, CallsMade(ctx_request))
        /\ UNCHANGED <<now, ctx_request, source_version>>
        /\ UNCHANGED ctxStepVars
        /\ ContextOnly

\* retrieve_context raises before anything is looked up: {"error": ...}
RetrieveFails ==
    /\ ctx_request.query.none
    /\ ctx_ret' = ContextReturned(ErrorContext, FALSE, NoCalls, {})
    /\ UNCHANGED <<memory_cache, now, ctx_request, source_version, sub_calls, ctx_cached>>
    /\ UNCHANGED ctxStepVars
    /\ ContextOnly

\* the corpus, the market or the news change
SourceChange ==
    /\ source_version < MaxSourceVersion
    /\ source_version' = source_version + 1
    /\ UNCHANGED <<memory_cache, now, ctx_request, sub_calls, ctx_ret, ctx_cached>>
    /\ UNCHANGED ctxStepVars
    /\ ContextOnly

\* time passes: half the ttl of a cached bundle
ContextTick ==
    /\ now < 2 * ContextCacheTtl
    /\ now' = now + ContextCacheTtl \div 2
    /\ UNCHANGED <<memory_cache, ctx_request, source_version, sub_calls, ctx_ret, ctx_cached>>
    /\ UNCHANGED ctxStepVars
    /\ ContextOnly

\* the part of a bundle that comes from one sub-source
SourcePart(bundle, source) ==
    CASE source = "search" -> bundle.educational_content
      [] source = "market" -> bundle.market_data
      [] source = "news"   -> bundle.news_articles

UsesSource(request, source) ==
    CASE source = "search" -> UsesEducational(request)
      [] source = "market" -> UsesMarket(request)
      [] source = "news"   -> UsesNews(request)

\* ---- retrieve_context step by step: the sub-retrievals run one after the
\* other in the caller's thread, each a blocking call ------------------------
Stages == << "educational", "market", "news", "recommendations" >>

StageSource(stage) ==
    CASE stage = "educational" -> "search"
      [] stage = "market" -> "market"
      [] stage = "news" -> "news"
      [] stage = "recommendations" -> "search"

StageUsed(request, stage) ==
    CASE stage = "educational" -> UsesEducational(request)
      [] stage = "market" -> UsesMarket(request)
      [] stage = "news" -> UsesNews(request)
      [] stage = "recommendations" -> UsesRecommendations(request)

\* the statement after a stage: the next stage, or the cache write
StageAfter(stage) ==
    CASE stage = "educational" -> "market"
      [] stage = "market" -> "news"
      [] stage = "news" -> "recommendations"
      [] stage = "recommendations" -> "assembled"

\* context_data with the part of one stage filled in
WithStagePart(context_data, stage, part) ==
    CASE stage = "educational" -> [context_data EXCEPT !.educational_content = part]
      [] stage = "market" -> [context_data EXCEPT !.market_data = part]
      [] stage = "news" -> [context_data EXCEPT !.news_articles = part]
      [] stage = "recommendations" -> [context_data EXCEPT !.recommendations = part]

ContextLiveInit ==
    /\ ctx_request \in Requests
    /\ source_version = 0
    /\ sub_calls = NoCalls
    /\ ctx_ret = NoContextReturn
    /\ ctx_cached = NothingCached
    /\ ctx_pc = "idle"
    /\ ctx_partial = ErrorContext
    /\ ctx_unresponsive \in SUBSET SubSources
    /\ ChunkIdle

\* retrieve_context is called: an error, the cached bundle, or an empty
\* context_data to be filled
BeginRetrieve ==
    LET cache_key == ContextCacheKey(ctx_request)
    IN  /\ ctx_pc \in {"idle", "returned"}
        /\ IF ctx_request.query.none
           THEN /\ ctx_ret' = ContextReturned(ErrorContext, FALSE, NoCalls, {})
                /\ ctx_pc' = "returned"
                /\ UNCHANGED ctx_partial
           ELSE IF CacheLive(memory_cache, cache_key, now)
           THEN /\ ctx_ret' = ContextReturned(memory_cache[cache_key].value, TRUE, NoCalls, {})
                /\ ctx_pc' = "returned"
                /\ UNCHANGED ctx_partial
           ELSE /\ ctx_partial' = BuildContext(ctx_request, source_version, now, SubSources)
                /\ ctx_pc' = Stages[1]
                /\ UNCHANGED ctx_ret
        /\ UNCHANGED <<memory_cache, now, ctx_request, source_version, sub_calls, ctx_cached,
                       ctx_unresponsive>>
        /\ ContextOnly

\* the "if" of a stage is false: the sub-retrieval is not called
SubRetrievalSkipped ==
    /\ ctx_pc \in Range(Stages)
    /\ ~StageUsed(ctx_request, ctx_pc)
    /\ ctx_pc' = StageAfter(ctx_pc)
    /\ UNCHANGED <<memory_cache, now, ctx_request, source_version, sub_calls, ctx_ret,
                   ctx_cached, ctx_partial, ctx_unresponsive>>
    /\ ContextOnly

\* the sub-retrieval of the current stage returns, with its results or with
\* [] after a caught failure; the call returns only when its source answers
SubRetrievalReturns ==
    /\ ctx_pc \in Range(Stages)
    /\ StageUsed(ctx_request, ctx_pc)
    /\ StageSource(ctx_pc) \notin ctx_unresponsive
    /\ \E failed \in SUBSET {StageSource(ctx_pc)} :
          ctx_partial' = WithStagePart(ctx_partial, ctx_pc,
                                       SourceResult(StageSource(ctx_pc), source_version, failed))
    /\ sub_calls' = [sub_calls EXCEPT ![StageSource(ctx_pc)] = @ + 1]
    /\ ctx_pc' = StageAfter(ctx_pc)
    /\ UNCHANGED <<memory_cache, now, ctx_request, source_version, ctx_ret, ctx_cached,
                   ctx_unresponsive>>
    /\ ContextOnly

\* cache_manager.set(cache_key, context_data, ttl=1800); return context_data
FinishRetrieve ==
    LET cache_key == ContextCacheKey(ctx_request)
        failed == { source \in SubSources :
                      UsesSource(ctx_request, source) /\ SourcePart(ctx_partial, source) = << >> }
    IN  /\ ctx_pc = "assembled"
        /\ memory_cache' = CacheAfterSet(CacheAfterRead(memory_cache, cache_key, now),
                                         cache_key, ctx_partial, ContextCacheTtl, now)
        /\ ctx_ret' = ContextReturned(ctx_partial, FALSE, CallsMade(ctx_request), failed)
        /\ ctx_cached' = [present |-> TRUE, at |-> now, bundle |-> ctx_partial]
        /\ ctx_pc' = "returned"
        /\ UNCHANGED <<now, ctx_request, source_version, sub_calls, ctx_partial, ctx_unresponsive>>
        /\ ContextOnly

ContextLiveNext == BeginRetrieve \/ SubRetrievalSkipped \/ SubRetrievalReturns \/ FinishRetrieve

ContextNext ==
    RetrieveFromCache \/ RetrieveFromSources \/ RetrieveFails \/ SourceChange \/ ContextTick

(***************************************************************************)
(* Conversation State Tracker  (chatbot/conversation_manager.py,           *)
(* chatbot/chat_handler 2.py).  Message contents are strings; the text     *)
(* operations are those of Python's str.                                   *)
(***************************************************************************)
\* "word in text"
Contains(text, word) ==
    \E i \in 1..(Len(text) - Len(word) + 1) : SubSeq(text, i, i + Len(word) - 1) = word

\* text.find(word) + 1, 0 when absent
Find(text, word) ==
    IF Contains(text, word)
    THEN CHOOSE i \in 1..(Len(text) - Len(word) + 1) :
            /\ SubSeq(text, i, i + Len(word) - 1) = word
            /\ \A j \in 1..(i - 1) : SubSeq(text, j, j + Len(word) - 1) # word
    ELSE 0

\* text.split(sep)
RECURSIVE Split(_, _)
Split(text, sep) ==
    LET i == Find(text, sep)
    IN  IF i = 0 THEN << text >>
        ELSE << SubSeq(text, 1, i - 1) >> \o Split(SubSeq(text, i + Len(sep), Len(text)), sep)

\* text.split(): the words between runs of blanks
Words(text) == SelectSeq(Split(text, " "), LAMBDA w : w # "")

\* sep.join(parts)
RECURSIVE Join(_, _)
Join(parts, sep) ==
    IF parts = << >> THEN ""
    ELSE IF Len(parts) = 1 THEN parts[1]
    ELSE parts[1] \o sep \o Join(Tail(parts), sep)

\* text.strip()
RECURSIVE Strip(_)
Strip(text) ==
    IF Len(text) > 0 /\ SubSeq(text, 1, 1) = " " THEN Strip(SubSeq(text, 2, Len(text)))
    ELSE IF Len(text) > 0 /\ SubSeq(text, Len(text), Len(text)) = " "
         THEN Strip(SubSeq(text, 1, Len(text) - 1))
    ELSE text

UpperCase == "ABCDEFGHIJKLMNOPQRSTUVWXYZ"
LowerCase == "abcdefghijklmnopqrstuvwxyz"

\* the lower-case letter of every upper-case letter
LowerOf ==
    [ c \in { SubSeq(UpperCase, i, i) : i \in 1..Len(UpperCase) } |->
        SubSeq(LowerCase, Find(UpperCase, c), Find(UpperCase, c)) ]

\* one character of text.lower()
LowerChar(c) == IF c \in DOMAIN LowerOf THEN LowerOf[c] ELSE c

\* text.lower(), character by character
RECURSIVE Lower(_)
Lower(text) ==
    IF Len(text) = 0 THEN ""
    ELSE IF Len(text) = 1 THEN LowerChar(text)
    ELSE LET half == Len(text) \div 2
         IN  Lower(SubSeq(text, 1, half)) \o Lower(SubSeq(text, half + 1, Len(text)))

\* text[:n]
Prefix(text, n) == SubSeq(text, 1, Min(n, Len(text)))

\* CONVERSATION_CONFIG
MaxContextMessages == 10
SummaryLength == 200
\* "if len(messages) > 10"
SummaryMinMessages == 10
\* ttl of a cached conversation
ConversationCacheTtl == 3600

\* _analyze_conversation_topic: the topics in the order of the dict
Topics ==
    << [topic |-> "stocks", keywords |-> {"stock", "stocks", "share", "shares", "equity", "equities"}],
       [topic |-> "bonds", keywords |-> {"bond", "bonds", "fixed income", "treasury", "corporate bond"}],
       [topic |-> "etfs", keywords |-> {"etf", "etfs", "exchange traded fund", "index fund"}],
       [topic |-> "portfolio", keywords |-> {"portfolio", "diversification", "asset allocation", "balance"}],
       [topic |-> "risk", keywords |-> {"risk", "risky", "safe", "volatility", "uncertainty"}],
       [topic |-> "savings", keywords |-> {"save", "saving", "savings", "budget", "budgeting"}],
       [topic |-> "retirement", keywords |-> {"retirement", "401k", "ira", "pension", "future"}],
       [topic |-> "market", keywords |-> {"market", "trading", "buy", "sell", "price", "value"}],
       [topic |-> "education", keywords |-> {"learn", "learning", "understand", "explain", "teach"}] >>

TopicScore(text, i) == Cardinality({ k \in Topics[i].keywords : Contains(text, k) })

\* _analyze_conversation_topic: the first topic of the highest score over
\* the last five messages
AnalyzeConversationTopic(messages) ==
    IF messages = << >> THEN ""
    ELSE LET recent_text == Lower(Join([ i \in 1..Len(LastN(messages, 5)) |->
                                          LastN(messages, 5)[i].content ], " "))
             score == [ i \in 1..Len(Topics) |-> TopicScore(recent_text, i) ]
             scored == { i \in 1..Len(Topics) : score[i] > 0 }
         IN  IF scored = {} THEN "general"
             ELSE Topics[CHOOSE i \in scored :
                            \A j \in scored : score[j] < score[i] \/ (score[j] = score[i] /\ i <= j)].topic

InterestKeywords ==
    { "interested in", "want to learn about", "curious about", "like", "love", "enjoy",
      "fascinated by", "want to know more about" }

\* the topic after the keyword: the first three words of parts[1]
InterestAfter(content, keyword) ==
    Join(Take(Words(Strip(Split(content, keyword)[2])), 3), " ")

\* _extract_user_interests: the set built from the user messages
InterestSet(messages) ==
    LET content == [ i \in 1..Len(messages) |->
                        IF messages[i].role = "user" THEN Lower(messages[i].content) ELSE "" ]
    IN  { InterestAfter(content[ik[1]], ik[2]) :
            ik \in { jk \in (1..Len(messages)) \X InterestKeywords :
                        /\ messages[jk[1]].role = "user"
                        /\ Contains(content[jk[1]], jk[2]) } }

\* list(interests): the elements of the set in any order
RECURSIVE Orders(_)
Orders(S) ==
    IF S = {} THEN { << >> }
    ELSE UNION { { << x >> \o rest : rest \in Orders(S \ {x}) } : x \in S }

KeyIndicators == {"important", "key", "remember", "note"}

HasIndicator(text) == \E w \in KeyIndicators : Contains(text, w)

\* the sentences of one assistant message that carry an indicator
KeySentences(content) ==
    IF HasIndicator(content)
    THEN LET sentences == Split(content, ".")
             kept == SelectSeq(sentences, LAMBDA sentence : HasIndicator(Lower(sentence)))
         IN  [ i \in 1..Len(kept) |-> Strip(kept[i]) ]
    ELSE << >>

\* _extract_key_points
RECURSIVE AllKeySentences(_)
AllKeySentences(messages) ==
    IF messages = << >> THEN << >>
    ELSE (IF Head(messages).role = "assistant" THEN KeySentences(Head(messages).content) ELSE << >>)
         \o AllKeySentences(Tail(messages))

ExtractKeyPoints(messages) == Take(AllKeySentences(messages), 5)

\* _generate_conversation_summary, interests being list(interests)[:5]
GenerateConversationSummary(messages, interests) ==
    IF messages = << >> THEN ""
    ELSE LET topics == AnalyzeConversationTopic(messages)
             key_points == ExtractKeyPoints(messages)
             summary_parts ==
                 (IF topics # "" /\ topics # "general" THEN << "Discussed " \o topics >> ELSE << >>)
                 \o (IF interests # << >>
                     THEN << "User interested in " \o Join(Take(interests, 2), ", ") >> ELSE << >>)
                 \o (IF key_points # << >>
                     THEN << "Key points: " \o Prefix(key_points[1], 100) \o "..." >> ELSE << >>)
             summary == Join(summary_parts, ". ")
         IN  IF Len(summary) > SummaryLength THEN Prefix(summary, SummaryLength) \o "..."
             ELSE summary

\* save_conversation up to the database write: message_count and
\* _update_conversation_context; order is the order list(interests) yields
UpdateConversationContext(conversation, order) ==
    LET messages == conversation.messages
        recent_messages == LastN(messages, MaxContextMessages)
    IN  IF messages = << >> THEN [conversation EXCEPT !.message_count = 0]
        ELSE [conversation EXCEPT
                !.message_count = Len(messages),
                !.topic = AnalyzeConversationTopic(recent_messages),
                !.user_interests = Take(order, 5),
                !.key_points = ExtractKeyPoints(recent_messages),
                !.summary = IF Len(messages) > SummaryMinMessages
                            THEN GenerateConversationSummary(recent_messages, Take(order, 5))
                            ELSE @]

\* ---- handle_message turns for one (user_id, session_id) ------------------
\* bounds
MaxPriorTurns == 5
MaxPriorTurnsInterleaved == 2

\* the two turns, the message each carries and the reply generated for it
Turns == {"first", "second"}

TurnMessage == [ first |-> "Tell me about etfs", second |-> "I like bonds" ]

TurnReply == [ first |-> "An etf is a fund. Fees are key", second |-> "Bonds pay interest" ]

\* a user message and the assistant message that answers it
Exchange(message, reply) ==
    << [role |-> "user", content |-> message], [role |-> "assistant", content |-> reply] >>

\* what earlier turns of the session may have left: long messages
LongExchanges ==
    { Exchange("I am interested in cryptocurrency investing strategies",
               "Please remember that diversification across many different asset classes and regions lowers the chance of losing money. Ok"),
      Exchange("I love international diversification opportunities", "Sure") }

\* what earlier turns of the session may have left: short messages
ShortExchanges ==
    { Exchange("What is a stock", "A share. Note the risk"),
      Exchange("I enjoy saving", "Good") }

RECURSIVE Flatten(_)
Flatten(ss) == IF ss = << >> THEN << >> ELSE Head(ss) \o Flatten(Tail(ss))

LongHistories == { Flatten(h) : h \in SeqsUpTo(LongExchanges, MaxPriorTurns) }

ShortHistories == { Flatten(h) : h \in SeqsUpTo(ShortExchanges, MaxPriorTurnsInterleaved) }

\* the dict built by create_conversation; id 0 stands for "not yet stored"
NewConversation ==
    [ id |-> 0, session_id |-> "s", messages |-> << >>, ended |-> FALSE, topic |-> "",
      summary |-> "", message_count |-> 0, user_interests |-> << >>, key_points |-> << >> ]

\* the conversation earlier turns have stored: the last save ran on these
\* messages
StoredPrior(messages) ==
    [ UpdateConversationContext([NewConversation EXCEPT !.messages = messages],
                                CHOOSE order \in Orders(InterestSet(LastN(messages, MaxContextMessages))) : TRUE)
      EXCEPT !.id = 1 ]

\* f"conversation:{user_id}:{session_id}"
ConversationCacheKey == << "conversation", "u", "s" >>

\* get_conversation_history + the session_id test: the newest document of
\* the session, 0 when there is none
FindDocument(db) ==
    IF \E i \in 1..Len(db) : db[i].session_id = "s"
    THEN CHOOSE i \in 1..Len(db) : db[i].session_id = "s" /\ \A j \in 1..Len(db) : db[j].session_id = "s" => j <= i
    ELSE 0

\* the process when the turns in "active" arrive: either the session is
\* new, or earlier turns have stored and cached "prior"
ConvStart(fresh, prior, active) ==
    /\ conv_prior = (IF fresh THEN << >> ELSE prior)
    /\ conv_db = (IF fresh THEN << >> ELSE << StoredPrior(prior) >>)
    /\ conv_heap = conv_db
    /\ memory_cache = (IF fresh THEN EmptyCache
                       ELSE CacheAfterSet(EmptyCache, ConversationCacheKey, 1, ConversationCacheTtl, 0))
    /\ now = 0
    /\ turn_pc = [ t \in Turns |-> IF t \in active THEN "received" ELSE "done" ]
    /\ turn_conv = [ t \in Turns |-> 0 ]
    /\ turn_write = [ t \in Turns |-> NewConversation ]

\* two turns of one session arrive together
ConvInit == \E fresh \in BOOLEAN, prior \in ShortHistories : ConvStart(fresh, prior, Turns)

\* one turn arrives after a long conversation
SummaryInit ==
    \E fresh \in BOOLEAN, prior \in LongHistories : ConvStart(fresh, prior, {"first"})

ConvIdle ==
    /\ conv_heap = << >>
    /\ conv_db = << >>
    /\ conv_prior = << >>
    /\ turn_pc = [ t \in Turns |-> "done" ]
    /\ turn_conv = [ t \in Turns |-> 0 ]
    /\ turn_write = [ t \in Turns |-> NewConversation ]

ConvOnly == UNCHANGED <<recVars, cacheOpVars, searchVars, ctxVars, conv_prior>>

\* handle_message up to get_conversation's cache lookup; on a miss the turn
\* waits for get_conversation_history
GetConversation(t) ==
    /\ turn_pc[t] = "received"
    /\ IF CacheLive(memory_cache, ConversationCacheKey, now)
       THEN /\ turn_conv' = [turn_conv EXCEPT ![t] = memory_cache[ConversationCacheKey].value]
            /\ turn_pc' = [turn_pc EXCEPT ![t] = "have"]
            /\ UNCHANGED memory_cache
       ELSE /\ memory_cache' = CacheAfterRead(memory_cache, ConversationCacheKey, now)
            /\ turn_pc' = [turn_pc EXCEPT ![t] = "history"]
            /\ UNCHANGED turn_conv
    /\ UNCHANGED <<now, conv_heap, conv_db, turn_write>>
    /\ ConvOnly

\* get_conversation_history returns: the document found is cached and
\* returned, otherwise create_conversation builds a dict and waits for
\* firestore_client.save_conversation
HistoryReturned(t) ==
    LET doc == FindDocument(conv_db)
        obj == Len(conv_heap) + 1
    IN  /\ turn_pc[t] = "history"
        /\ turn_conv' = [turn_conv EXCEPT ![t] = obj]
        /\ IF doc # 0
           THEN /\ conv_heap' = Append(conv_heap, conv_db[doc])
                /\ memory_cache' = CacheAfterSet(memory_cache, ConversationCacheKey, obj,
                                                 ConversationCacheTtl, now)
                /\ turn_pc' = [turn_pc EXCEPT ![t] = "have"]
           ELSE /\ conv_heap' = Append(conv_heap, NewConversation)
                /\ turn_pc' = [turn_pc EXCEPT ![t] = "adding"]
                /\ UNCHANGED memory_cache
        /\ UNCHANGED <<now, conv_db, turn_write>>
        /\ ConvOnly

\* firestore_client.save_conversation returns the id of the new document;
\* create_conversation caches the dict
ConversationAdded(t) ==
    LET obj == turn_conv[t]
        doc == Len(conv_db) + 1
    IN  /\ turn_pc[t] = "adding"
        /\ conv_db' = Append(conv_db, [conv_heap[obj] EXCEPT !.id = doc])
        /\ conv_heap' = [conv_heap EXCEPT ![obj].id = doc]
        /\ memory_cache' = CacheAfterSet(memory_cache, ConversationCacheKey, obj,
                                         ConversationCacheTtl, now)
        /\ turn_pc' = [turn_pc EXCEPT ![t] = "have"]
        /\ UNCHANGED <<now, turn_conv, turn_write>>
        /\ ConvOnly

\* after get_user_profile and the generation of the reply: _update_conversation
\* appends the two messages and save_conversation runs up to the database
\* update it waits for
UpdateConversation(t) ==
    LET obj == turn_conv[t]
        appended == [conv_heap[obj] EXCEPT
                        !.messages = @ \o Exchange(TurnMessage[t], TurnReply[t])]
    IN  /\ turn_pc[t] = "have"
        /\ \E order \in Orders(InterestSet(LastN(appended.messages, MaxContextMessages))) :
              LET saved == UpdateConversationContext(appended, order)
              IN  /\ conv_heap' = [conv_heap EXCEPT ![obj] = saved]
                  /\ turn_write' = [turn_write EXCEPT ![t] = saved]
        /\ turn_pc' = [turn_pc EXCEPT ![t] = "updating"]
        /\ UNCHANGED <<memory_cache, now, conv_db, turn_conv>>
        /\ ConvOnly

\* the database update lands; save_conversation caches the dict and
\* handle_message returns
ConversationUpdated(t) ==
    LET obj == turn_conv[t]
    IN  /\ turn_pc[t] = "updating"
        /\ conv_db' = [conv_db EXCEPT ![turn_write[t].id] = turn_write[t]]
        /\ memory_cache' = CacheAfterSet(memory_cache, ConversationCacheKey, obj,
                                         ConversationCacheTtl, now)
        /\ turn_pc' = [turn_pc EXCEPT ![t] = "done"]
        /\ UNCHANGED <<now, conv_heap, turn_conv, turn_write>>
        /\ ConvOnly

\* time passes: the ttl of a cached conversation
ConvTick ==
    /\ now < ConversationCacheTtl
    /\ now' = now + ConversationCacheTtl
    /\ UNCHANGED <<memory_cache, conv_heap, conv_db, turn_pc, turn_conv, turn_write>>
    /\ ConvOnly

\* ---- save_conversation called with a conversation dict --------------------
\* bounds: exchanges stored before, save_conversation calls in one behaviour
MaxSavedTurns == 5
MaxSaves == 2

\* messages with the timestamp field: the i-th message stored at second i
Stamped(messages) ==
    [ i \in 1..Len(messages) |->
        [role |-> messages[i].role, content |-> messages[i].content, timestamp |-> i] ]

SavedExchanges ==
    { Exchange("Hello", "Hi there"), Exchange("What is a stock", "A share. Note the risk") }

SavedHistories == { Stamped(Flatten(h)) : h \in SeqsUpTo(SavedExchanges, MaxSavedTurns) }

LastTimestamp(messages) == IF messages = << >> THEN 0 ELSE messages[Len(messages)].timestamp

\* the messages a caller may have appended to the dict it saves: either
\* role, stamped before or after the last stored message
IncomingMessages(messages) ==
    { [role |-> r, content |-> c, timestamp |-> LastTimestamp(messages) + d] :
        r \in {"user", "assistant"}, c \in {"Hello", "I like bonds"}, d \in {-1, 1} }

\* a conversation saved and cached earlier; no turn is running
SaveInit ==
    \E prior \in SavedHistories :
        /\ conv_prior = prior
        /\ conv_db = << StoredPrior(prior) >>
        /\ conv_heap = conv_db
        /\ memory_cache = CacheAfterSet(EmptyCache, ConversationCacheKey, 1, ConversationCacheTtl, 0)
        /\ now = 0
        /\ turn_pc = [ t \in Turns |-> "done" ]
        /\ turn_conv = [ t \in Turns |-> 0 ]
        /\ turn_write = [ t \in Turns |-> NewConversation ]

\* save_conversation(conversation), the caller having appended one message
\* to the dict: message_count, context and summary are recomputed, the
\* document is updated and the dict is cached
SaveConversation ==
    LET obj == memory_cache[ConversationCacheKey].value
    IN  /\ Len(conv_heap[obj].messages) < Len(conv_prior) + MaxSaves
        /\ \E message \in IncomingMessages(conv_heap[obj].messages) :
              LET appended == [conv_heap[obj] EXCEPT !.messages = Append(@, message)]
              IN  \E order \in Orders(InterestSet(LastN(appended.messages, MaxContextMessages))) :
                     LET saved == UpdateConversationContext(appended, order)
                     IN  /\ conv_heap' = [conv_heap EXCEPT ![obj] = saved]
                         /\ conv_db' = [conv_db EXCEPT ![saved.id] = saved]
        /\ memory_cache' = CacheAfterSet(memory_cache, ConversationCacheKey, obj,
                                         ConversationCacheTtl, now)
        /\ UNCHANGED <<now, turn_pc, turn_conv, turn_write>>
        /\ ConvOnly

SaveNext == SaveConversation

\* ---- start_conversation and end_conversation ------------------------------
\* bound: documents in the user_conversations collection
MaxDocuments == 2

\* personality_manager.get_conversation_starter(): its fallback text, the
\* emoji left out
StarterMessage ==
    "Hey there! I'm Finley, your investment education buddy! What would you like to learn about today?"

\* end_conversation: get_conversation (cache, then the documents); the
\* conversation found is marked ended and saved
EndConversation ==
    LET live == CacheLive(memory_cache, ConversationCacheKey, now)
        doc == FindDocument(conv_db)
        obj == IF live THEN memory_cache[ConversationCacheKey].value ELSE Len(conv_heap) + 1
        heap == IF live \/ doc = 0 THEN conv_heap ELSE Append(conv_heap, conv_db[doc])
    IN  /\ IF live \/ doc # 0
           THEN \E order \in Orders(InterestSet(LastN(heap[obj].messages, MaxContextMessages))) :
                   LET saved == UpdateConversationContext([heap[obj] EXCEPT !.ended = TRUE], order)
                   IN  /\ conv_heap' = [heap EXCEPT ![obj] = saved]
                       /\ conv_db' = [conv_db EXCEPT ![saved.id] = saved]
                       /\ memory_cache' = CacheAfterSet(memory_cache, ConversationCacheKey, obj,
                                                        ConversationCacheTtl, now)
           ELSE /\ memory_cache' = CacheAfterRead(memory_cache, ConversationCacheKey, now)
                /\ UNCHANGED <<conv_heap, conv_db>>
        /\ UNCHANGED <<now, turn_pc, turn_conv, turn_write>>
        /\ ConvOnly

\* start_conversation(user_id, session_id): create_conversation stores and
\* caches a new dict, the starter message is appended and the dict is saved
StartConversation ==
    LET doc == Len(conv_db) + 1
        obj == Len(conv_heap) + 1
        created == [NewConversation EXCEPT
                      !.id = doc,
                      !.messages = << [role |-> "assistant", content |-> StarterMessage] >>]
        saved == UpdateConversationContext(created, << >>)
    IN  /\ Len(conv_db) < MaxDocuments
        /\ conv_heap' = Append(conv_heap, saved)
        /\ conv_db' = Append(conv_db, saved)
        /\ memory_cache' = CacheAfterSet(memory_cache, ConversationCacheKey, obj,
                                         ConversationCacheTtl, now)
        /\ UNCHANGED <<now, turn_pc, turn_conv, turn_write>>
        /\ ConvOnly

\* one handle_message turn arrives while conversations are started and ended
LifecycleInit ==
    \E fresh \in BOOLEAN, prior \in { h \in ShortHistories : Len(h) <= 2 } :
        ConvStart(fresh, prior, {"first"})

GetConversationStep == \E t \in Turns : GetConversation(t)
HistoryReturnedStep == \E t \in Turns : HistoryReturned(t)
ConversationAddedStep == \E t \in Turns : ConversationAdded(t)
UpdateConversationStep == \E t \in Turns : UpdateConversation(t)
ConversationUpdatedStep == \E t \in Turns : ConversationUpdated(t)

ConvNext ==
    \/ GetConversationStep
    \/ HistoryReturnedStep
    \/ ConversationAddedStep
    \/ UpdateConversationStep
    \/ ConversationUpdatedStep
    \/ ConvTick

\* the conversation get_conversation(user_id, session_id) returns is ended
KeyEnded ==
    IF CacheLive(memory_cache, ConversationCacheKey, now)
    THEN conv_heap[memory_cache[ConversationCacheKey].value].ended
    ELSE FindDocument(conv_db) # 0 /\ conv_db[FindDocument(conv_db)].ended

\* ---- handle_message for a key whose conversation has been ended -----------
\* no turn has arrived yet
EndedInit ==
    \E fresh \in BOOLEAN, prior \in { h \in ShortHistories : Len(h) <= 2 } :
        ConvStart(fresh, prior, {})

\* the one turn that arrives
LateTurn == "first"

\* handle_message(user_id, message, session_id) is called while the
\* conversation get_conversation returns for the key is ended
MessageArrivesAfterEnd ==
    /\ KeyEnded
    /\ turn_pc[LateTurn] = "done" /\ turn_conv[LateTurn] = 0
    /\ turn_pc' = [turn_pc EXCEPT ![LateTurn] = "received"]
    /\ UNCHANGED <<memory_cache, now, conv_heap, conv_db, turn_conv, turn_write>>
    /\ ConvOnly

EndedNext ==
    \/ EndConversation
    \/ StartConversation
    \/ MessageArrivesAfterEnd
    \/ GetConversationStep
    \/ HistoryReturnedStep
    \/ UpdateConversationStep
    \/ ConversationUpdatedStep
    \/ ConvTick

LifecycleNext == ConvNext \/ EndConversation \/ StartConversation

(***************************************************************************)
(* Specifications                                                          *)
(***************************************************************************)
InitRec == RecInit /\ CacheIdle /\ SearchIdle /\ ContextIdle /\ ConvIdle

SpecRec == InitRec /\ [][RecNext]_vars

InitRequest == RequestInit /\ CacheIdle /\ SearchIdle /\ ContextIdle /\ ConvIdle

SpecRequest == InitRequest /\ [][RequestNext]_vars

InitEnded == EndedInit /\ CacheOpIdle /\ RecIdle /\ SearchIdle /\ ContextIdle

SpecEnded == InitEnded /\ [][EndedNext]_vars

InitSearch == SearchInit /\ CacheIdle /\ RecIdle /\ ContextIdle /\ ConvIdle

InitCache == CacheInit /\ RecIdle /\ SearchIdle /\ ContextIdle /\ ConvIdle

SpecCache == InitCache /\ [][CacheNext]_vars

\* the in-process map and the backing store receive the same calls
SpecBoth == InitCache /\ [][BothNext]_vars

InitContext == ContextInit /\ CacheIdle /\ RecIdle /\ SearchIdle /\ ConvIdle

SpecContext == InitContext /\ [][ContextNext]_vars

InitContextLive == ContextLiveInit /\ CacheIdle /\ RecIdle /\ SearchIdle /\ ConvIdle

\* every statement of a running retrieve_context is executed when it can be
SpecContextLive == InitContextLive /\ [][ContextLiveNext]_vars /\ WF_vars(ContextLiveNext)

InitChunk ==
    /\ ChunkInit
    /\ ctx_request = [query |-> CHOOSE q \in Queries : q.none, user_profile |-> "no profile",
                      context_type |-> "educational"]
    /\ source_version = 0
    /\ sub_calls = NoCalls
    /\ ctx_ret = NoContextReturn
    /\ ctx_cached = NothingCached
    /\ ctx_pc = "idle"
    /\ ctx_partial = ErrorContext
    /\ ctx_unresponsive = {}
    /\ CacheIdle /\ RecIdle /\ SearchIdle /\ ConvIdle

SpecChunk == InitChunk /\ [][ChunkNext]_vars

InitConv == ConvInit /\ CacheOpIdle /\ RecIdle /\ SearchIdle /\ ContextIdle

SpecConv == InitConv /\ [][ConvNext]_vars

InitSummary == SummaryInit /\ CacheOpIdle /\ RecIdle /\ SearchIdle /\ ContextIdle

SpecSummary == InitSummary /\ [][ConvNext]_vars

InitSave == SaveInit /\ CacheOpIdle /\ RecIdle /\ SearchIdle /\ ContextIdle

SpecSave == InitSave /\ [][SaveNext]_vars

InitLifecycle == LifecycleInit /\ CacheOpIdle /\ RecIdle /\ SearchIdle /\ ContextIdle

SpecLifecycle == InitLifecycle /\ [][LifecycleNext]_vars

SpecSearch == InitSearch /\ [][SearchNext]_vars

InitRepeat == RepeatInit /\ CacheIdle /\ RecIdle /\ ContextIdle /\ ConvIdle

SpecRepeat == InitRepeat /\ [][RepeatNext]_vars

InitMmr == MmrInit /\ CacheIdle /\ RecIdle /\ ContextIdle /\ ConvIdle

SpecMmr == InitMmr /\ [][MmrNext]_vars

InitFilter == FilterInit /\ CacheIdle /\ RecIdle /\ ContextIdle /\ ConvIdle

SpecFilter == InitFilter /\ [][FilterNext]_vars

(***************************************************************************)
(* Properties of the Recommendation Scorer                                 *)
(***************************************************************************)
RecReturned == rec_pc \in {"generated", "defaulted"}

InUnitInterval(score) == 0 <= score /\ score <= CompositeOne

\* position of a content id in the store listing
RECURSIVE PositionOf(_, _)
PositionOf(listing, id) ==
    IF listing = <<>> THEN 0
    ELSE IF listing[Len(listing)].id = id THEN Len(listing)
    ELSE PositionOf(SubSeq(listing, 1, Len(listing) - 1), id)

\* C7: for every content item (quality 1..10), profile and engagement record
\* the composite score of _calculate_recommendation_score lies in [0,1], and
\* so does the score of every entry of a returned recommendation list.
C7_ScoresInUnitInterval ==
    RecReturned =>
        /\ \A i \in 1..Len(all_content) :
              InUnitInterval(RecommendationScore(all_content[i], user_profile, user_engagement))
        /\ \A i \in 1..Len(recommendations) : InUnitInterval(recommendations[i].score)

\* C7 witness: a generated list with two entries, one of them scored from an
\* engagement sum that exceeded 1.0 before its own cap
C7_Witness ==
    /\ rec_pc = "generated"
    /\ Len(recommendations) >= 2
    /\ \E i \in 1..Len(recommendations) :
          EngagementScore(recommendations[i].content, user_engagement) = ScoreScale

C9_ExcludedIffBelowThreshold ==
    (rec_pc = "generated" /\ all_content # <<>>) =>
        /\ \A i \in 1..Len(recommendations) :
              recommendations[i].score >= MinScoreThreshold * ScoreScale
        /\ \A i \in 1..Len(all_content) :
              RecommendationScore(all_content[i], user_profile, user_engagement)
                    >= MinScoreThreshold * ScoreScale
              => \/ \E j \in 1..Len(recommendations) :
                        recommendations[j].content = all_content[i]
                 \/ Len(recommendations) = rec_limit

\* C10: the composite score is monotonic non-decreasing in each of the five
\* factor values: raising one factor with the other four fixed never lowers it.
FactorValues == { (ScoreScale \div 20) * k : k \in 0..20 }

C10_CompositeMonotonic ==
    rec_pc = "generated" =>
        \A i \in 1..Len(all_content) :
            LET f == Factors(all_content[i], user_profile, user_engagement)
            IN  \A name \in FactorNames : \A v \in FactorValues :
                    v >= f[name] =>
                        CompositeScore([f EXCEPT ![name] = v]) >= CompositeScore(f)

\* C10 witness: a scored item with a factor below 1.0 whose raising strictly
\* raises the composite
C10_Witness ==
    /\ rec_pc = "generated"
    /\ \E i \in 1..Len(all_content) :
          LET f == Factors(all_content[i], user_profile, user_engagement)
          IN  /\ f.freshness < ScoreScale
              /\ CompositeScore([f EXCEPT !.freshness = ScoreScale]) > CompositeScore(f)

(***************************************************************************)
(* Properties of the Similarity Search Engine                              *)
(***************************************************************************)
Ids(list) == { list[i].id : i \in 1..Len(list) }

\* C1 (as claimed): for a candidate list with distinct content ids and a limit
\* >= 0, the list _select_mmr_results returns holds no content id twice and
\* has at most `limit` elements.
C1_MmrNoDuplicatesWithinLimit ==
    search_call.op = "select" =>
        /\ Cardinality(Ids(search_out)) = Len(search_out)
        /\ Len(search_out) <= search_limit

\* C2: every result search_educational_content returns in similarity mode has
\* relevance (1 - distance) >= similarity_threshold, and for the raw relevances
\* [0.9, 0.75, 0.6, 0.5, 0.4] the output is exactly the two items >= 0.7.
Relevance(result) == DistanceOne - result.distance

C2_SimilarityAboveThreshold ==
    (search_call.op = "search" /\ search_type = "similarity") =>
        /\ \A i \in 1..Len(search_out) : Relevance(search_out[i]) >= SimilarityThreshold
        /\ (index_results = ScenarioBAnswer /\ search_limit = DefaultMaxResults
              /\ search_call.failure = "none")
             => search_out = Take(ScenarioBAnswer, 2)

\* C2 witness: Scenario B answered from the index, and a cached answer served
C2_Witness ==
    /\ search_call.op = "search" /\ search_type = "similarity"
    /\ index_results = ScenarioBAnswer /\ search_limit = DefaultMaxResults
    /\ search_call.from_cache
    /\ Len(search_out) = 2

(***************************************************************************)
(* Properties of the Cache Layer                                           *)
(***************************************************************************)
ReadOps == {"get", "exists", "get_hash", "get_all_hash", "get_ttl"}

\* C4 (as claimed): once an entry's expiry time has passed, no later read
\* (get, exists, get_hash, get_all_hash, get_ttl) returns its value or reports
\* it present, whatever calls come in between, unless the key was written
\* again by set.
C4_ExpiredNeverRead ==
    /\ cache_ret.op \in ReadOps => ~(cache_ret.ok /\ cache_ret.stale)
    /\ \A k \in expired : ~CacheLive(memory_cache, k, now)

(***************************************************************************)
(* Properties of the Context Aggregator                                    *)
(***************************************************************************)
\* C5: a retrieve_context call with the same (query, profile, context_type)
\* made less than 30 minutes after a call that built and cached a bundle
\* returns that bundle and calls none of the similarity search, market-data
\* and news sub-sources.
C5_CachedWithinTtl ==
    (ctx_ret.op = "retrieve" /\ ctx_ret.within_ttl) =>
        /\ ctx_ret.from_cache
        /\ ctx_ret.bundle = ctx_ret.first_bundle
        /\ ctx_ret.calls = NoCalls

\* C5 witness: a second call served from the cache after half the ttl, while
\* the sub-sources have changed since the first call
C5_Witness ==
    /\ ctx_ret.op = "retrieve" /\ ctx_ret.within_ttl /\ ctx_ret.from_cache
    /\ now > ctx_ret.bundle.retrieved_at
    /\ source_version > 0
    /\ ctx_ret.bundle.educational_content = SourceData("search", 0)
    /\ ctx_ret.bundle.market_data = SourceData("market", 0)

(***************************************************************************)
(* Properties of the Conversation State Tracker                            *)
(***************************************************************************)
\* what get_conversation returns now: the cached dict, else the newest
\* document of the session
HasStored == CacheLive(memory_cache, ConversationCacheKey, now) \/ FindDocument(conv_db) # 0

StoredConversation ==
    IF CacheLive(memory_cache, ConversationCacheKey, now)
    THEN conv_heap[memory_cache[ConversationCacheKey].value]
    ELSE conv_db[FindDocument(conv_db)]

AllConversations == Range(conv_heap) \cup Range(conv_db)

\* C3: after any sequence of conversation saves no conversation, in memory
\* or in the database, carries a summary longer than 200 characters.
C3_SummaryWithinLength ==
    \A c \in AllConversations : Len(c.summary) <= SummaryLength

TurnsDone == \A t \in Turns : turn_pc[t] = "done"

HasExchange(messages, t) ==
    \E i \in 1..(Len(messages) - 1) :
        messages[i] = Exchange(TurnMessage[t], TurnReply[t])[1]
        /\ messages[i + 1] = Exchange(TurnMessage[t], TurnReply[t])[2]

\* C6: once two turns of the same (user_id, session_id) have returned, the
\* stored conversation begins with the messages stored before and holds the
\* messages of both turns, each user message followed by its own reply.
C6_BothTurnsStored ==
    (Len(conv_heap) > 0 /\ TurnsDone) =>
        /\ HasStored
        /\ Len(StoredConversation.messages) = Len(conv_prior) + 4
        /\ Take(StoredConversation.messages, Len(conv_prior)) = conv_prior
        /\ \A t \in Turns : HasExchange(StoredConversation.messages, t)

\* the user's analytics were read and hold no conversation
NoEngagementHistory == user_engagement.present /\ user_engagement.conversation_data = <<>>

\* Scenario A: {category stocks, beginner, quality 9, 2 days old} scored for
\* {interests [stocks], experience beginner}
IsScenarioAItem(item) ==
    /\ item.category = "stocks" /\ item.difficulty_level = "beginner"
    /\ item.content_quality_score = 9 /\ item.days_old = 2

IsScenarioAProfile(profile) ==
    profile.interests = {"stocks"} /\ profile.experience_level = "beginner"

C12_SearchFailureReturnsEmpty ==
    (search_call.op = "search" /\ search_call.failure \in SearchFailures) =>
        search_out = << >>

\* C12 witness: an embedding failure in MMR mode over an index that holds a
\* document near enough to pass the threshold, answered with the empty list
C12_Witness ==
    /\ search_call.op = "search" /\ search_call.failure = "embedding"
    /\ search_type = "mmr" /\ search_limit > 0
    /\ \E i \in 1..Len(index_results) : WithinThreshold(index_results[i])
    /\ search_out = << >>

\* C13: a retrieve_context call during which sub-sources fail returns a
\* bundle, not an error: the part of every failed source is empty and the
\* part of every source that answered holds its results.
C13_SubFailureGivesEmptyPart ==
    (ctx_ret.op = "retrieve" /\ ~ctx_ret.from_cache /\ ~ctx_request.query.none) =>
        /\ ~ctx_ret.bundle.error
        /\ \A source \in SubSources :
              UsesSource(ctx_request, source) =>
                  SourcePart(ctx_ret.bundle, source) =
                      (IF source \in ctx_ret.failed THEN << >>
                       ELSE SourceData(source, ctx_ret.version))

\* C13 witness: the market source failed, the bundle holds the search and the
\* news results and nothing for the market
C13_Witness ==
    /\ ctx_ret.op = "retrieve" /\ ~ctx_ret.from_cache /\ ctx_ret.failed = {"market"}
    /\ UsesMarket(ctx_request)
    /\ ctx_ret.bundle.market_data = << >>
    /\ ctx_ret.bundle.educational_content # << >>
    /\ ctx_ret.bundle.news_articles # << >>

\* C14 (as claimed): a retrieve_context call that has started eventually
\* returns a bundle, also when one of its sub-sources never answers.
C14_SlowSourceDoesNotBlock == (ctx_pc \notin {"idle", "returned"}) ~> (ctx_pc = "returned")

\* the list get_personalized_recommendations computes from the store as it is
FreshRecommendations ==
    IF profile_stored
    THEN GenerateRecommendations(all_content, user_profile, user_engagement, rec_limit)
    ELSE DefaultRecommendations(all_content, rec_limit)

\* C15 (as claimed): with the cache store unreachable the call returns the
\* default list.
C15_UnreachableCacheGivesDefaultList ==
    (rq_out.returned /\ ~cache_reachable) =>
        (~rq_out.raised /\ rq_out.list = DefaultRecommendations(all_content, rec_limit))

\* C15 (amended): with the cache store unreachable the call raises nothing and
\* returns the list computed from the store: the personalised list of the
\* profile as it stood when the call read it, the default list for a user
\* without profile; nothing is cached.
C15_UnreachableCacheStillAnswers ==
    (rq_out.returned /\ ~cache_reachable) =>
        /\ ~rq_out.raised
        /\ ~rq_out.from_cache
        /\ memory_cache = EmptyCache
        /\ rq_out.defaulted = ~profile_stored
        /\ rq_out.version = profile_version => rq_out.list = FreshRecommendations

C15_Witness ==
    /\ rq_out.returned
    /\ ~cache_reachable
    /\ profile_stored
    /\ rq_out.version = profile_version
    /\ rq_out.list # << >>
    /\ rq_out.list # DefaultRecommendations(all_content, rec_limit)

\* the last of "new" was appended to "old" although it is stamped earlier
\* than the last message of "old" or repeats its role
AppendedOutOfOrder(old, new) ==
    /\ old # << >>
    /\ Len(new) = Len(old) + 1
    /\ \/ new[Len(new)].timestamp < old[Len(old)].timestamp
       \/ new[Len(new)].role = old[Len(old)].role

\* C16 (as claimed): a save whose new message is stamped earlier than the
\* last stored message, or repeats the role of the last stored message, is
\* rejected: the stored document (messages, message_count, context) is left
\* as it was, so no step stores such a message.
C16_OutOfOrderUpdateRejected ==
    [][ \A i \in 1..Len(conv_db) :
          ~AppendedOutOfOrder(conv_db[i].messages, conv_db'[i].messages) ]_vars

\* C18 (as claimed): a saved conversation has an empty summary while it holds
\* at most 10 messages and a non-empty summary once it holds more than 10,
\* whatever the messages say.
C18_SummaryEmptyUntilEleven ==
    \A i \in 1..Len(conv_db) :
        /\ conv_db[i].message_count <= SummaryMinMessages => conv_db[i].summary = ""
        /\ conv_db[i].message_count > SummaryMinMessages => conv_db[i].summary # ""

\* C17 (as claimed): once the conversation under (user_id, session_id) is
\* ended, no later operation (a handle_message turn, a save, start_conversation
\* or get_or_create_conversation with the same key, the expiry of the cache
\* entry) leaves the conversation under that key not ended.
C17_EndedIsTerminal == [][KeyEnded => KeyEnded']_vars

\* C19 (as claimed): get-or-create creates at most one conversation per
\* (user_id, session_id): the collection never holds two documents of the
\* session, also when two calls for the same new key interleave.
C19_OneConversationPerKey ==
    Cardinality({ i \in 1..Len(conv_db) : conv_db[i].session_id = "s" }) <= 1

\* C20 (as claimed): a get_personalized_recommendations call that started
\* after an update_user_interests call completed (and before any later one)
\* returns the list computed from the updated profile, never a list cached
\* from the profile as it was before, whoever wrote that entry.
C20_RequestsAfterUpdateUseNewProfile ==
    (rq_pc = "returned" /\ rq_out.returned /\ profile_stored
       /\ profile_version > 0 /\ rq_out.version = profile_version) =>
        rq_out.list = FreshRecommendations

\* C21 (as claimed): whatever calls and clock advances came before, a read
\* (get, exists, get_hash) through the in-process map returns what the same
\* read through the backing store returns.
C21_FallbackReadsLikeBackingStore ==
    cache_ret.op \in {"get", "exists", "get_hash"} =>
        (cache_ret.ok = redis_ret.ok /\ cache_ret.value = redis_ret.value)

\* the weights the scorer multiplies the five factors with, in hundredths
WeightTotal ==
    W_user_interests + W_user_experience_level + W_content_popularity
    + W_content_freshness + W_user_engagement

\* C22: in every state in which scores have been computed the five weights
\* the scorer uses sum to exactly 1.0: they add up to 100 hundredths, and the
\* weighted sum of five factors that are all 1.0 is exactly 1.0.
C22_WeightsSumToOne ==
    rec_pc = "generated" =>
        /\ WeightTotal = 100
        /\ WeightedSum([ name \in FactorNames |-> ScoreScale ]) = CompositeOne

\* C22 witness: scores were computed and an entry was returned
C22_Witness == rec_pc = "generated" /\ recommendations # << >>

\* the candidates not among the first k - 1 picks
RemainingAt(results, picks, k) ==
    { c \in Range(results) : \A j \in 1..(k - 1) : picks[j].id # c.id }

\* C23 (as claimed): when _select_mmr_results selects (more candidates than
\* the limit), the first pick is a candidate of the highest relevance and
\* every later pick is a remaining candidate whose MMR score against the
\* picks before it is the maximum over the remaining candidates; in Scenario
\* C with limit 2 the picks are the top near-duplicate and the "bonds" one.
C23_MmrPicksAreGreedy ==
    (search_call.op = "select" /\ Len(index_results) > search_limit) =>
        /\ \A c \in Range(index_results) : search_out[1].distance <= c.distance
        /\ \A k \in 2..Len(search_out) :
              /\ search_out[k] \in RemainingAt(index_results, search_out, k)
              /\ \A c \in RemainingAt(index_results, search_out, k) :
                    MmrScore(c, SubSeq(search_out, 1, k - 1))
                        <= MmrScore(search_out[k], SubSeq(search_out, 1, k - 1))
        /\ (index_results = ScenarioCAnswer /\ search_limit = 2) =>
              search_out = << ScenarioCAnswer[1], ScenarioCAnswer[4] >>

\* C24 (as claimed): _apply_filters keeps a result if and only if, for every
\* filter key, the result's metadata has the key and its value equals the
\* scalar filter value or is a member of the list filter value.
C24_FiltersCombineWithAnd ==
    search_call.op = "filter" =>
        \A i \in 1..Len(index_results) :
            (index_results[i] \in Range(search_out)) <=>
                \A filter_key \in DOMAIN search_call.filters :
                    /\ filter_key \in DOMAIN index_results[i].metadata
                    /\ index_results[i].metadata[filter_key]
                           \in search_call.filters[filter_key].values

\* the age bracket of a profile, as search_by_user_profile derives it
AgeBracket(age) ==
    IF age < 16 THEN {"13-15"} ELSE IF age > 18 THEN {"16-19"}
    ELSE {"13-15", "16-19", "all_teens"}

\* C27 (as claimed): no item returned by search_by_user_profile has a
\* difficulty level above the user's experience level, and every returned item
\* carries a target age of the user's age bracket and, when the user has
\* interests, a category among the first three of them.
C27_ProfileSearchRespectsCeiling ==
    search_call.op = "profile" =>
        \A i \in 1..Len(search_out) :
            LET metadata == search_out[i].metadata
                profile == search_call.profile
            IN  /\ "difficulty_level" \in DOMAIN metadata =>
                       LevelOf(metadata.difficulty_level) <= LevelOf(profile.experience_level)
                /\ "target_age" \in DOMAIN metadata
                /\ metadata.target_age \in AgeBracket(profile.age)
                /\ profile.interests # << >> =>
                       /\ "category" \in DOMAIN metadata
                       /\ metadata.category \in Range(Take(profile.interests, 3))

\* the interest factor as the claim states it: 0.7 for a category among the
\* interests plus 0.3 times the fraction of the content's keywords that are
\* among the interests
ClaimedInterestScore(content_item, profile) ==
    LET category_match == IF content_item.category \in profile.interests THEN ScoreScale ELSE 0
        present == Cardinality(content_item.keywords \cap profile.interests)
        fraction == IF content_item.keywords = {} THEN 0
                    ELSE (present * ScoreScale) \div Cardinality(content_item.keywords)
    IN  (category_match * 7 + fraction * 3) \div 10

\* C25 (as claimed): for every content item scored and every profile, the
\* interest factor is 0.7 * (category among the interests) + 0.3 * (fraction
\* of the content's keywords present in the interests).
C25_InterestFactorFormula ==
    rec_pc = "generated" =>
        \A i \in 1..Len(all_content) :
            InterestScore(all_content[i], user_profile)
                = ClaimedInterestScore(all_content[i], user_profile)

(***************************************************************************)
(* C26: content longer than the chunk size is cut right after the last     *)
(* sentence terminator found in its first chunk_size characters whenever   *)
(* there is one, is cut at chunk_size only when there is none, and gets    *)
(* the ellipsis marker appended in both cases.                             *)
(***************************************************************************)
TerminatorsInChunk(content) ==
    {p \in DOMAIN content.marks : p < ChunkSize /\ content.marks[p] \in SentenceTerminators}

C26_CutAfterLastTerminator ==
    (chunk_out.called /\ chunk_content.len > ChunkSize) =>
        /\ chunk_out.appended = "..."
        /\ chunk_out.kept = IF TerminatorsInChunk(chunk_content) # {}
                            THEN SetMax(TerminatorsInChunk(chunk_content)) + 1
                            ELSE ChunkSize

\* C26 as the code has it: the cut follows the last sentence terminator of
\* the first chunk_size characters when that terminator lies beyond 70% of
\* chunk_size, and is a hard cut at chunk_size otherwise (no terminator, or
\* the last one at or before 70%); the ellipsis marker is appended in both
\* cases.
C26_CutAfterLateTerminator ==
    (chunk_out.called /\ chunk_content.len > ChunkSize) =>
        LET terminators == TerminatorsInChunk(chunk_content)
            late == terminators # {} /\ 10 * SetMax(terminators) > 7 * ChunkSize
        IN  /\ chunk_out.appended = "..."
            /\ chunk_out.kept = IF late THEN SetMax(terminators) + 1 ELSE ChunkSize

\* a long content whose only terminator in the chunk is an early one has
\* been chunked with a hard cut
C26_Witness ==
    /\ chunk_out.called
    /\ chunk_content.len > ChunkSize
    /\ TerminatorsInChunk(chunk_content) = {350}
    /\ chunk_out.kept = ChunkSize

(***************************************************************************)
(* C28: while the result cached by a search_educational_content call is    *)
(* within its one-hour TTL, a repeat of the identical call is answered     *)
(* from the cache and the index is not called again, whatever the cached   *)
(* value is, an empty result list included.                                *)
(***************************************************************************)
SearchResultCached == CacheLive(memory_cache, SearchCacheKey(search_limit), now)

C28_CachedSearchNotRecomputed ==
    [][SearchResultCached => index_calls' = index_calls]_vars

(***************************************************************************)
(* C29: for a limit >= 1 and n candidates, _select_mmr_results returns     *)
(* exactly min(limit, n) results, each of them one of the candidates and   *)
(* none of them twice; when n <= limit it returns the candidates           *)
(* unchanged, in their original order.  (That the selection ends is what   *)
(* lets SelectMmrCall produce its result.)                                 *)
(***************************************************************************)
C29_MmrReturnsMinOfLimitAndCandidates ==
    (search_call.op = "select" /\ search_limit >= 1) =>
        /\ Len(search_out) = Min(search_limit, Len(index_results))
        /\ \A k \in 1..Len(search_out) : search_out[k] \in Range(index_results)
        /\ Cardinality(Ids(search_out)) = Len(search_out)
        /\ Len(index_results) <= search_limit => search_out = index_results

\* C29 witness: a selection out of more candidates than the limit
C29_Witness ==
    /\ search_call.op = "select"
    /\ search_limit >= 1
    /\ Len(index_results) > search_limit
    /\ Len(search_out) = search_limit

(***************************************************************************)
(* C30: once end_conversation has succeeded for (user_id, session_id),     *)
(* the message sequence of the ended conversation is frozen: a             *)
(* handle_message that arrives later with the same key appends nothing to  *)
(* it.                                                                     *)
(***************************************************************************)
C30_EndedMessagesFrozen ==
    [][\A i \in 1..Len(conv_db) :
          conv_db[i].ended => conv_db'[i].messages = conv_db[i].messages]_vars

====
